---------------------------- MODULE Spec2Model ----------------------------
(***************************************************************************)
(* A model of the front end of curv: the semantic analyzer                 *)
(* (src/curv/analyzer.cc), the scope/binding resolver that turns a Phrase  *)
(* tree into IR, and the recursive descent parser (src/curv/parser.cc)     *)
(* that turns a token stream into a Phrase tree.                           *)
(*                                                                         *)
(* The analyzer is a recursive tree walk.  The model makes the C++ call    *)
(* stack explicit: `stack' holds one activation per running                *)
(* Phrase::analyze call, `envs' holds the chain of live Environ objects    *)
(* (each analyze that introduces a scope pushes one and pops it when it    *)
(* returns), and an exception unwinds both in one step.  The parser is     *)
(* modelled the same way, with `calls' for its activations.                *)
(*                                                                         *)
(* Three specifications share the module: Spec runs the analyzer on a      *)
(* Phrase, ParserSpec runs parse_program on a token stream, BindingsSpec   *)
(* makes add_definition calls on one Bindings object.  Each leaves the     *)
(* variables of the other two as they start.                               *)
(***************************************************************************)
EXTENDS Integers, Sequences, FiniteSets, TLC

VARIABLES
    program,    \* the Phrase handed to the analyzer (never changes)
    stack,      \* activations of Phrase::analyze, innermost last
    envs,       \* the live Environ chain, envs[1] is the Builtin_Environ
    result,     \* the Meaning returned, an Exception, or Running
    tokens,     \* the token stream the Scanner reads (never changes)
    scanner,    \* the Scanner: the place in tokens and the pushed back tokens
    calls,      \* activations of the parse_ functions, innermost last
    parsed,     \* the Phrase parse_program returned, an Exception, or Running
    bindings,   \* a Bindings object
    history,    \* the Definitions handed to bindings.add_definition so far
    thrown      \* what the last add_definition call threw, or nullptr

analyzer_vars == <<program, stack, envs, result>>
parser_vars == <<tokens, scanner, calls, parsed>>
bindings_vars == <<bindings, history, thrown>>
vars == <<program, stack, envs, result, tokens, scanner, calls, parsed,
          bindings, history, thrown>>

(***************************************************************************)
(* Atoms, tokens, phrases                                                  *)
(***************************************************************************)

\* The identifiers that occur in the analyzed programs.
Atoms == {"a", "b", "pi"}

\* The absent slot of an Atom_Map<int> (find() == end()).
NoSlot == -1

\* Atom_Map<int> with no entry.
EmptyMap == [x \in Atoms |-> NoSlot]

MapSize(m) == Cardinality({x \in Atoms : m[x] # NoSlot})

\* Token kinds of the separator that follows an element of a list.
k_missing == "k_missing"
k_comma == "k_comma"

Identifier(a) == [kind |-> "Identifier", atom |-> a]
Numeral == [kind |-> "Numeral"]
Arg(e, c) == [expr |-> e, comma |-> c]
Paren_Phrase(as) == [kind |-> "Paren_Phrase", args |-> as]
List_Phrase(as) == [kind |-> "List_Phrase", args |-> as]
Record_Phrase(as) == [kind |-> "Record_Phrase", args |-> as]
Semicolon_Phrase(as) == [kind |-> "Semicolon_Phrase", args |-> as]
Binary_Phrase(l, o, r) == [kind |-> "Binary_Phrase", left |-> l, op |-> o, right |-> r]
Definition_Phrase(l, r) == [kind |-> "Definition_Phrase", left |-> l, right |-> r]
Call_Phrase(f, as) == [kind |-> "Call_Phrase", function |-> f, args |-> as]
Lambda_Phrase(l, r, rec) ==
    [kind |-> "Lambda_Phrase", left |-> l, right |-> r, recursive |-> rec]
Let_Phrase(as, b) == [kind |-> "Let_Phrase", args |-> as, body |-> b]
For_Phrase(as, b) == [kind |-> "For_Phrase", args |-> as, body |-> b]
Module_Phrase(b) == [kind |-> "Module_Phrase", body |-> b]

\* A comma list as the parser builds it: every element but the last carries
\* its comma, the last one a k_missing token.
RECURSIVE Commas(_)
Commas(es) ==
    IF es = <<>> THEN <<>>
    ELSE IF Len(es) = 1 THEN <<Arg(es[1], k_missing)>>
    ELSE <<Arg(es[1], k_comma)>> \o Commas(Tail(es))

(***************************************************************************)
(* Meanings                                                                *)
(***************************************************************************)

nullptr == [kind |-> "nullptr"]
Exception(at, m) == [kind |-> "Exception", at |-> at, msg |-> m]
Running == [kind |-> "Running"]

Constant(src, v) == [kind |-> "Constant", src |-> src, value |-> v]
Metafunction(src) == [kind |-> "Metafunction", src |-> src]
Ref(k, src, slot) == [kind |-> k, src |-> src, slot |-> slot]
Arg_Ref(src, slot) == Ref("Arg_Ref", src, slot)
Let_Ref(src, slot) == Ref("Let_Ref", src, slot)
Module_Ref(src, slot) == Ref("Module_Ref", src, slot)
Nonlocal_Ref(src, slot) == Ref("Nonlocal_Ref", src, slot)
Nonlocal_Function_Ref(src, slot) == Ref("Nonlocal_Function_Ref", src, slot)
Thunk(e) == [kind |-> "Thunk", expr |-> e]
Lambda(body, nargs, nslots) ==
    [kind |-> "Lambda", body |-> body, nargs |-> nargs, nslots |-> nslots]

IsException(m) == m.kind = "Exception"
\* Operation is every Meaning that is not a Metafunction.
IsOperation(m) == m.kind \notin {"nullptr", "Exception", "Running", "Metafunction"}
IsConstant(m) == m.kind = "Constant"


(***************************************************************************)
(* Environ: one lexical scope.  envs[e]'s parent_ is envs[e-1]; envs[1] is  *)
(* the root (Builtin_Environ), whose parent_ is null (index 0).            *)
(***************************************************************************)

\* The builtin namespace: value builtins make a Constant, `echo' (not among
\* the Atoms of the analyzed programs) a Metafunction.
builtin_namespace == {"pi"}

Environ(k, nslots, maxslots, names, slot_phrases, rec) ==
    [kind |-> k,
     frame_nslots |-> nslots,
     frame_maxslots |-> maxslots,
     names |-> names,                  \* names_ / dictionary_ / bindings
     slot_phrases |-> slot_phrases,    \* Bindings::slot_phrases_
     nonlocal_dictionary |-> EmptyMap, \* Arg_Environ only
     nonlocal_exprs |-> <<>>,          \* Arg_Environ only
     recursive |-> rec]                \* Arg_Environ only

\* Environ::Environ: a scope starts with both counters at 0.
Builtin_Environ == Environ("Builtin_Environ", 0, 0, EmptyMap, <<>>, FALSE)

Max(x, y) == IF x >= y THEN x ELSE y

Builtin_Environ_single_lookup(id) ==
    IF id.atom \in builtin_namespace THEN Constant(id, id.atom) ELSE nullptr

Bindings_is_recursive_function(slot_phrases, slot) ==
    slot_phrases[slot + 1].kind = "Lambda_Phrase"

\* The lookup without the test for a recursive function.
Bindings_Environ_single_lookup_plain(env, id) ==
    IF env.names[id.atom] # NoSlot
    THEN Module_Ref(id, env.names[id.atom])
    ELSE nullptr

Bindings_Environ_single_lookup(env, id) ==
    IF env.names[id.atom] # NoSlot
    THEN IF Bindings_is_recursive_function(env.slot_phrases, env.names[id.atom])
         THEN Nonlocal_Function_Ref(id, env.names[id.atom])
         ELSE Module_Ref(id, env.names[id.atom])
    ELSE nullptr

Let_Environ_single_lookup(env, id) ==
    IF env.names[id.atom] # NoSlot
    THEN Let_Ref(id, env.names[id.atom])
    ELSE nullptr

\* For_Environ keeps name_ and slot_: names maps name_ to slot_ and nothing else.
For_Environ_single_lookup(env, id) ==
    IF env.names[id.atom] # NoSlot
    THEN Let_Ref(id, env.names[id.atom])
    ELSE nullptr

\* The capture without its test for a Constant: a Constant takes a slot of the
\* nonlocal list like any other Operation.
Arg_Environ_capture_constants(es, e, id, m) ==
    IF IsOperation(m)
    THEN LET slot == Len(es[e].nonlocal_exprs)
         IN  [m |-> Nonlocal_Ref(id, slot),
              envs |-> [es EXCEPT ![e].nonlocal_dictionary[id.atom] = slot,
                                  ![e].nonlocal_exprs = Append(@, m)]]
    ELSE [m |-> m, envs |-> es]

\* Arg_Environ::single_lookup, the case of a name found in the parent chain:
\* m is what parent_->lookup(id) returned.
Arg_Environ_capture(es, e, id, m) ==
    IF IsConstant(m) THEN [m |-> m, envs |-> es]
    ELSE IF IsOperation(m)
    THEN LET slot == Len(es[e].nonlocal_exprs)
         IN  [m |-> Nonlocal_Ref(id, slot),
              envs |-> [es EXCEPT ![e].nonlocal_dictionary[id.atom] = slot,
                                  ![e].nonlocal_exprs = Append(@, m)]]
    ELSE [m |-> m, envs |-> es]

RECURSIVE Environ_lookup(_, _, _)
RECURSIVE Environ_single_lookup(_, _, _)

\* Lookups return the Meaning and the Environ chain as the lookup leaves it
\* (a capture adds to the nonlocal list of every non-recursive lambda it
\* crosses).
Arg_Environ_single_lookup(es, e, id) ==
    IF es[e].names[id.atom] # NoSlot
    THEN [m |-> Arg_Ref(id, es[e].names[id.atom]), envs |-> es]
    ELSE IF es[e].recursive
    THEN [m |-> nullptr, envs |-> es]
    ELSE IF es[e].nonlocal_dictionary[id.atom] # NoSlot
    THEN [m |-> Nonlocal_Ref(id, es[e].nonlocal_dictionary[id.atom]), envs |-> es]
    ELSE LET r == Environ_lookup(es, e - 1, id)
         IN  IF IsException(r.m) THEN r
             ELSE Arg_Environ_capture(r.envs, e, id, r.m)

Environ_single_lookup(es, e, id) ==
    CASE es[e].kind = "Builtin_Environ" ->
            [m |-> Builtin_Environ_single_lookup(id), envs |-> es]
      [] es[e].kind = "Bindings_Environ" ->
            [m |-> Bindings_Environ_single_lookup(es[e], id), envs |-> es]
      [] es[e].kind = "Let_Environ" ->
            [m |-> Let_Environ_single_lookup(es[e], id), envs |-> es]
      [] es[e].kind = "For_Environ" ->
            [m |-> For_Environ_single_lookup(es[e], id), envs |-> es]
      [] es[e].kind = "Arg_Environ" ->
            Arg_Environ_single_lookup(es, e, id)

\* A lookup that asks the parent first: the outermost binding of a name wins.
Environ_lookup_outermost(es, e, id) ==
    IF e = 0
    THEN [m |-> Exception(id, ": not defined"), envs |-> es]
    ELSE LET p == Environ_lookup(es, e - 1, id)
             r == Environ_single_lookup(es, e, id)
         IN  IF ~IsException(p.m) \/ r.m = nullptr THEN p ELSE r

\* Environ::lookup, called on envs[e]; e = 0 is the null parent of the root.
Environ_lookup(es, e, id) ==
    IF e = 0
    THEN [m |-> Exception(id, ": not defined"), envs |-> es]
    ELSE LET r == Environ_single_lookup(es, e, id)
         IN  IF r.m # nullptr THEN r
             ELSE Environ_lookup(r.envs, e - 1, id)

(***************************************************************************)
(* analyze_def and the binding tables                                      *)
(***************************************************************************)

Definition(name, definiens) ==
    [kind |-> "Definition", name |-> name, definiens |-> definiens]

\* An analyze_def that takes f(args) = body for f = body: the definiens is
\* not wrapped in a lambda.
analyze_def_unwrapped(ph) ==
    IF ph.kind # "Definition_Phrase" THEN nullptr
    ELSE IF ph.left.kind = "Identifier" THEN Definition(ph.left, ph.right)
    ELSE IF ph.left.kind = "Call_Phrase"
    THEN IF ph.left.function.kind = "Identifier"
         THEN Definition(ph.left.function, ph.right)
         ELSE Exception(ph.left.function, "not an identifier")
    ELSE Exception(ph.left, "invalid definiendum")

\* Phrase::analyze_def (nullptr) and Definition_Phrase::analyze_def.
analyze_def(ph) ==
    IF ph.kind # "Definition_Phrase" THEN nullptr
    ELSE IF ph.left.kind = "Identifier" THEN Definition(ph.left, ph.right)
    ELSE IF ph.left.kind = "Call_Phrase"
    THEN IF ph.left.function.kind = "Identifier"
         THEN Definition(ph.left.function,
                         Lambda_Phrase(ph.left.args, ph.right, FALSE))
         ELSE Exception(ph.left.function, "not an identifier")
    ELSE Exception(ph.left, "invalid definiendum")

\* Bindings: dictionary_ (atom -> index), slot_phrases_, cur_position_ is
\* Len(slot_phrases); err is the exception add_definition raised, or nullptr.
Bindings == [dictionary |-> EmptyMap, slot_phrases |-> <<>>, err |-> nullptr]

\* The definiens left as it is.
Bindings_mark_nothing(definiens) == definiens

\* The definiens as add_definition leaves it: a Lambda_Phrase is marked recursive.
Bindings_mark_recursive(definiens) ==
    IF definiens.kind = "Lambda_Phrase"
    THEN [definiens EXCEPT !.recursive = TRUE]
    ELSE definiens

\* Bindings::add_definition without its test of dictionary_: the second
\* definition of a name takes the place of the first.
Bindings_add_definition_unchecked(b, def) ==
    [b EXCEPT !.dictionary[def.name.atom] = Len(b.slot_phrases),
              !.slot_phrases = Append(@, Bindings_mark_recursive(def.definiens))]

\* Bindings::add_definition with the test of dictionary_ after the
\* push_back: a rejected definition leaves its definiens in slot_phrases_.
Bindings_add_definition_pushes_first(b, def) ==
    IF b.dictionary[def.name.atom] # NoSlot
    THEN [b EXCEPT !.err = Exception(def.name, ": multiply defined"),
                   !.slot_phrases = Append(@, def.definiens)]
    ELSE [b EXCEPT !.dictionary[def.name.atom] = Len(b.slot_phrases),
                   !.slot_phrases = Append(@, Bindings_mark_recursive(def.definiens))]

Bindings_add_definition(b, def) ==
    IF b.dictionary[def.name.atom] # NoSlot
    THEN [b EXCEPT !.err = Exception(def.name, ": multiply defined")]
    ELSE [b EXCEPT !.dictionary[def.name.atom] = Len(b.slot_phrases),
                   !.slot_phrases = Append(@, Bindings_mark_recursive(def.definiens))]

\* Statements: the elements of a semicolon phrase, or the phrase alone.
Statements(ph) ==
    IF ph.kind = "Semicolon_Phrase"
    THEN [i \in 1..Len(ph.args) |-> ph.args[i].expr]
    ELSE <<ph>>

\* Module_Phrase::analyze_module, phase 1, over the statements from the i-th on:
\* st is [fields |-> Bindings, elements |-> the non-definitions so far].
RECURSIVE Module_phase1(_, _, _)
Module_phase1(stmts, i, st) ==
    IF i > Len(stmts) THEN st
    ELSE LET def == analyze_def(stmts[i])
         IN  IF IsException(def) THEN [st EXCEPT !.fields.err = def]
             ELSE IF def # nullptr
             THEN LET f == Bindings_add_definition(st.fields, def)
                  IN  IF f.err # nullptr THEN [st EXCEPT !.fields = f]
                      ELSE Module_phase1(stmts, i + 1, [st EXCEPT !.fields = f])
             ELSE Module_phase1(stmts, i + 1,
                                [st EXCEPT !.elements = Append(@, stmts[i])])

\* Let_Phrase::analyze, phase 1, over args_->args_ from the i-th on: b is
\* [names |-> atom -> slot_, phrases |-> the definientia in slot order,
\*  slot |-> the next slot, err |-> the exception raised or nullptr].
Let_first_slot(env) == env.frame_nslots

RECURSIVE Let_phase1(_, _, _)
Let_phase1(args, i, b) ==
    IF i > Len(args) THEN b
    ELSE LET def == analyze_def(args[i].expr)
         IN  IF def = nullptr
             THEN [b EXCEPT !.err = Exception(args[i].expr, "not a definition")]
             ELSE IF IsException(def) THEN [b EXCEPT !.err = def]
             ELSE IF b.names[def.name.atom] # NoSlot
             THEN [b EXCEPT !.err = Exception(def.name, ": multiply defined")]
             ELSE Let_phase1(args, i + 1,
                     [b EXCEPT !.names[def.name.atom] = b.slot,
                               !.phrases = Append(@, def.definiens),
                               !.slot = b.slot + 1])

\* Lambda_Phrase::analyze, phase 1: the parameter dictionary of a Paren_Phrase,
\* over args_ from the i-th on; p is [names, slot, err].
RECURSIVE Lambda_params(_, _, _)
Lambda_params(args, i, p) ==
    IF i > Len(args) THEN p
    ELSE IF args[i].expr.kind = "Identifier"
    THEN Lambda_params(args, i + 1,
            [p EXCEPT !.names[args[i].expr.atom] = p.slot, !.slot = p.slot + 1])
    ELSE [p EXCEPT !.err = Exception(args[i].expr, "not a parameter")]

Lambda_phase1(left) ==
    LET p0 == [names |-> EmptyMap, slot |-> 0, err |-> nullptr]
    IN  IF left.kind = "Identifier"
        THEN [p0 EXCEPT !.names[left.atom] = 0, !.slot = 1]
        ELSE IF left.kind = "Paren_Phrase"
        THEN Lambda_params(left.args, 1, p0)
        ELSE [p0 EXCEPT !.err = Exception(left, "not a parameter")]

\* The Environ constructors.
Arg_Environ(names, recursive) ==
    Environ("Arg_Environ", MapSize(names), MapSize(names), names, <<>>, recursive)

\* A Let_Environ that keeps the frame_maxslots of its parent as it is.
Let_Environ_keeps_maxslots(p, names) ==
    Environ("Let_Environ", p.frame_nslots + MapSize(names), p.frame_maxslots,
            names, <<>>, FALSE)

Let_Environ(p, names) ==
    LET nslots == p.frame_nslots + MapSize(names)
    IN  Environ("Let_Environ", nslots, Max(p.frame_maxslots, nslots),
                names, <<>>, FALSE)

For_Environ(p, name, slot) ==
    LET nslots == p.frame_nslots + 1
    IN  Environ("For_Environ", nslots, Max(p.frame_maxslots, nslots),
                [EmptyMap EXCEPT ![name] = slot], <<>>, FALSE)

\* Bindings::Environ (declared in analyzer.h): starts from the parent's counters.
Bindings_Environ(p, fields) ==
    Environ("Bindings_Environ", p.frame_nslots, p.frame_maxslots,
            fields.dictionary, fields.slot_phrases, FALSE)

(***************************************************************************)
(* The call stack                                                          *)
(***************************************************************************)

\* One pending analyze_op(ph, envs[env]).
Job(ph, e) == [ph |-> ph, env |-> e]

\* An activation of ph.analyze(envs[env]): pc is the place in the function,
\* todo the analyze_op calls still to make before the next place, acc what
\* those made so far returned, order the order in which the operands are
\* visited where the code leaves it open.
Frame(job) ==
    [ph |-> job.ph, env |-> job.env, pc |-> "start",
     todo |-> <<>>, acc |-> <<>>, order |-> <<>>]

Top == stack[Len(stack)]
Callers == SubSeq(stack, 1, Len(stack) - 1)

\* The stack after its innermost activation f makes its next analyze_op call,
\* if it has one to make.
Resume(callers, f) ==
    IF f.todo = <<>> THEN Append(callers, f)
    ELSE callers \o <<[f EXCEPT !.todo = Tail(@)], Frame(Head(f.todo))>>

\* Operation::to_operation and Metafunction::to_operation.
to_operation(m) ==
    IF m.kind = "Metafunction" THEN Exception(m.src, "not an operation") ELSE m

\* An exception unwinds every activation and destroys their Environs.
Throw(exc) ==
    /\ stack' = <<>>
    /\ envs' = <<envs[1]>>
    /\ result' = exc
    /\ UNCHANGED <<program, parser_vars, bindings_vars>>

\* The innermost activation returns m, leaving the Environ chain es: the
\* caller's analyze_op converts m and goes on.
Return(m, es) ==
    IF IsException(to_operation(m)) THEN Throw(to_operation(m))
    ELSE /\ envs' = es
         /\ UNCHANGED <<program, parser_vars, bindings_vars>>
         /\ IF Len(stack) = 1
            THEN /\ stack' = <<>>
                 /\ result' = m
            ELSE /\ stack' = Resume(SubSeq(stack, 1, Len(stack) - 2),
                                    [stack[Len(stack) - 1] EXCEPT !.acc = Append(@, m)])
                 /\ UNCHANGED result

\* The innermost activation goes on as f, with the Environ chain es.
Continue(f, es) ==
    /\ stack' = Resume(Callers, f)
    /\ envs' = es
    /\ UNCHANGED <<program, result, parser_vars, bindings_vars>>

Active(kind) == stack # <<>> /\ Top.ph.kind = kind

(***************************************************************************)
(* Phrase::analyze, one action per phrase class                            *)
(***************************************************************************)

Identifier_analyze ==
    /\ Active("Identifier")
    /\ LET r == Environ_lookup(envs, Top.env, Top.ph)
       IN  IF IsException(r.m) THEN Throw(r.m) ELSE Return(r.m, r.envs)

Lambda_Expr(src, body, nonlocals, nargs, nslots) ==
    [kind |-> "Lambda_Expr", src |-> src, body |-> body,
     nonlocals |-> nonlocals, nargs |-> nargs, nslots |-> nslots]

\* What Lambda_Phrase::analyze returns once its body is analyzed in env2.
Lambda_result(ph, expr, env2) ==
    Lambda_Expr(ph, expr, env2.nonlocal_exprs, MapSize(env2.names),
                env2.frame_maxslots)

Lambda_Phrase_analyze ==
    /\ Active("Lambda_Phrase")
    /\ IF Top.pc = "start"
       THEN LET p == Lambda_phase1(Top.ph.left)
            IN  IF p.err # nullptr THEN Throw(p.err)
                ELSE Continue([Top EXCEPT !.pc = "body",
                                          !.todo = <<Job(Top.ph.right, Top.env + 1)>>],
                              Append(envs, Arg_Environ(p.names, Top.ph.recursive)))
       ELSE Return(Lambda_result(Top.ph, Top.acc[1], envs[Top.env + 1]),
                   SubSeq(envs, 1, Top.env))

Let_Expr(src, first_slot, values, body) ==
    [kind |-> "Let_Expr", src |-> src, first_slot |-> first_slot,
     values |-> values, body |-> body]

\* The Thunks in the order in which the definientia were analyzed.
Let_values_as_analyzed(acc, order) ==
    [i \in 1..Len(order) |-> Thunk(acc[i])]

\* values[slot_ - first_slot] = Thunk(expr): acc[k] is the expr of the binding
\* whose slot is first_slot + order[k] - 1.
Let_values(acc, order) ==
    [i \in 1..Len(order) |->
        Thunk(acc[CHOOSE k \in 1..Len(order) : order[k] = i])]

\* The orders in which a range-for can visit the n entries of an Atom_Map.
Atom_Map_orders(n) == Permutations(1..n)

\* The parent Environ left as it was when the child is destroyed.
Absorb_maxslots_forgotten(es, e) == SubSeq(es, 1, e)

\* The parent Environ after `env.frame_maxslots = env2.frame_maxslots'.
Absorb_maxslots(es, e) ==
    [SubSeq(es, 1, e) EXCEPT ![e].frame_maxslots = es[e + 1].frame_maxslots]

Let_Phrase_analyze ==
    /\ Active("Let_Phrase")
    /\ IF Top.pc = "start"
       THEN LET b == Let_phase1(Top.ph.args.args, 1,
                        [names |-> EmptyMap, phrases |-> <<>>,
                         slot |-> Let_first_slot(envs[Top.env]), err |-> nullptr])
                n == Len(b.phrases)
            IN  IF b.err # nullptr THEN Throw(b.err)
                ELSE \E order \in Atom_Map_orders(n) :
                        Continue([Top EXCEPT
                                    !.pc = "body",
                                    !.order = order,
                                    !.todo = [k \in 1..n |->
                                                Job(b.phrases[order[k]], Top.env + 1)]
                                             \o <<Job(Top.ph.body, Top.env + 1)>>],
                                 Append(envs, Let_Environ(envs[Top.env], b.names)))
       ELSE Return(Let_Expr(Top.ph, Let_first_slot(envs[Top.env]),
                            Let_values(Top.acc, Top.order),
                            Top.acc[Len(Top.acc)]),
                   Absorb_maxslots(envs, Top.env))

For_Expr(src, slot, list, body) ==
    [kind |-> "For_Expr", src |-> src, slot |-> slot, list |-> list, body |-> body]

\* The checks For_Phrase::analyze makes on its argument: the exception, or nullptr.
For_malformed(ph) ==
    IF Len(ph.args.args) # 1
    THEN Exception(ph.args, "for: malformed argument")
    ELSE IF ph.args.args[1].expr.kind # "Definition_Phrase"
    THEN Exception(ph.args.args[1].expr, "for: not a definition")
    ELSE IF ph.args.args[1].expr.left.kind # "Identifier"
    THEN Exception(ph.args.args[1].expr.left, "for: not an identifier")
    ELSE nullptr

\* The slot after the first free one.
For_slot_next(env) == env.frame_nslots + 1

For_slot(env) == env.frame_nslots

For_Phrase_analyze ==
    /\ Active("For_Phrase")
    /\ IF Top.pc = "start"
       THEN IF For_malformed(Top.ph) # nullptr THEN Throw(For_malformed(Top.ph))
            ELSE Continue([Top EXCEPT !.pc = "list",
                              !.todo = <<Job(Top.ph.args.args[1].expr.right, Top.env)>>],
                          envs)
       ELSE IF Top.pc = "list"
       THEN Continue([Top EXCEPT !.pc = "body",
                                 !.todo = <<Job(Top.ph.body, Top.env + 1)>>],
                     Append(envs, For_Environ(envs[Top.env],
                                              Top.ph.args.args[1].expr.left.atom,
                                              For_slot(envs[Top.env]))))
       ELSE Return(For_Expr(Top.ph, envs[Top.env + 1].names[
                                        Top.ph.args.args[1].expr.left.atom],
                            Top.acc[1], Top.acc[2]),
                   Absorb_maxslots(envs, Top.env))

Infix_Expr(src, op, l, r) ==
    [kind |-> "Infix_Expr", src |-> src, op |-> op, left |-> l, right |-> r]
Dot_Expr(src, l, atom) ==
    [kind |-> "Dot_Expr", src |-> src, left |-> l, atom |-> atom]
At_Expr(src, l, index) ==
    [kind |-> "At_Expr", src |-> src, left |-> l, index |-> index]

\* The operands of make<...>(..., analyze_op(left), analyze_op(right)) are
\* analyzed in either order: C++ leaves the order of argument evaluation open.
Argument_orders == {<<1, 2>>, <<2, 1>>}

\* Case k_dot without the test of the list: any list with a first element is
\* taken as an index.
Dot_error_any_list(ph) ==
    IF ph.right.kind = "Identifier" THEN nullptr
    ELSE IF ph.right.kind = "List_Phrase"
    THEN IF Len(ph.right.args) >= 1
         THEN nullptr
         ELSE Exception(ph, "not an expression")
    ELSE Exception(ph.right, "invalid expression after '.'")

\* Binary_Phrase::analyze, case k_dot: the exception it raises, or nullptr.
Dot_error(ph) ==
    IF ph.right.kind = "Identifier" THEN nullptr
    ELSE IF ph.right.kind = "List_Phrase"
    THEN IF Len(ph.right.args) = 1 /\ ph.right.args[1].comma = k_missing
         THEN nullptr
         ELSE Exception(ph, "not an expression")
    ELSE Exception(ph.right, "invalid expression after '.'")

\* Case k_dot: the analyze_op calls in the order the code makes them (the
\* index of a.[i] before a).
Dot_jobs(ph, e) ==
    IF ph.right.kind = "Identifier" THEN <<Job(ph.left, e)>>
    ELSE <<Job(ph.right.args[1].expr, e), Job(ph.left, e)>>

Binary_Phrase_analyze ==
    /\ Active("Binary_Phrase")
    /\ IF Top.pc = "start"
       THEN IF Top.ph.op = "k_dot"
            THEN IF Dot_error(Top.ph) # nullptr THEN Throw(Dot_error(Top.ph))
                 ELSE Continue([Top EXCEPT !.pc = "make",
                                           !.todo = Dot_jobs(Top.ph, Top.env)], envs)
            ELSE \E order \in Argument_orders :
                    Continue([Top EXCEPT
                                !.pc = "make",
                                !.order = order,
                                !.todo = [k \in 1..2 |->
                                    Job(IF order[k] = 1 THEN Top.ph.left
                                        ELSE Top.ph.right, Top.env)]],
                             envs)
       ELSE IF Top.ph.op = "k_dot"
       THEN IF Top.ph.right.kind = "Identifier"
            THEN Return(Dot_Expr(Top.ph, Top.acc[1], Top.ph.right.atom), envs)
            ELSE Return(At_Expr(Top.ph, Top.acc[2], Top.acc[1]), envs)
       ELSE Return(Infix_Expr(Top.ph, Top.ph.op,
                              Top.acc[CHOOSE k \in 1..2 : Top.order[k] = 1],
                              Top.acc[CHOOSE k \in 1..2 : Top.order[k] = 2]),
                   envs)

Module_Expr(src, dictionary, slots, elements, nslots) ==
    [kind |-> "Module_Expr", src |-> src, dictionary |-> dictionary,
     slots |-> slots, elements |-> elements, frame_nslots |-> nslots]

\* Bindings::analyze_values, given what analyze_op returned for each slot phrase.
Bindings_analyze_values(slot_phrases, exprs) ==
    [i \in 1..Len(slot_phrases) |->
        IF Bindings_is_recursive_function(slot_phrases, i - 1)
        THEN Lambda(exprs[i].body, exprs[i].nargs, exprs[i].nslots)
        ELSE Thunk(exprs[i])]

Module_Phrase_analyze_module ==
    /\ Active("Module_Phrase")
    /\ IF Top.pc = "start"
       THEN LET st == Module_phase1(Statements(Top.ph.body), 1,
                                    [fields |-> Bindings, elements |-> <<>>])
            IN  IF st.fields.err # nullptr THEN Throw(st.fields.err)
                ELSE Continue([Top EXCEPT
                                 !.pc = "make",
                                 !.todo = [k \in 1..(Len(st.fields.slot_phrases)
                                                     + Len(st.elements)) |->
                                    Job(IF k <= Len(st.fields.slot_phrases)
                                        THEN st.fields.slot_phrases[k]
                                        ELSE st.elements[k - Len(st.fields.slot_phrases)],
                                        Top.env + 1)]],
                              Append(envs, Bindings_Environ(envs[Top.env], st.fields)))
       ELSE LET env2 == envs[Top.env + 1]
                n == Len(env2.slot_phrases)
            IN  Return(Module_Expr(Top.ph, env2.names,
                                   Bindings_analyze_values(env2.slot_phrases,
                                                           SubSeq(Top.acc, 1, n)),
                                   SubSeq(Top.acc, n + 1, Len(Top.acc)),
                                   env2.frame_maxslots),
                       SubSeq(envs, 1, Top.env))

Record_Expr(src, fields) ==
    [kind |-> "Record_Expr", src |-> src, fields |-> fields]

\* record->fields_ once the first n elements are done: acc[i] is the Operation
\* of the i-th.
Record_fields(args, acc, n) ==
    [x \in Atoms |->
        IF \E i \in 1..n : analyze_def(args[i].expr).name.atom = x
        THEN acc[CHOOSE i \in 1..n : analyze_def(args[i].expr).name.atom = x]
        ELSE nullptr]

\* analyze_definition up to its analyze_op call: the exception, or nullptr.
analyze_definition(def, dict) ==
    IF dict[def.name.atom] # nullptr
    THEN Exception(def.name, ": multiply defined")
    ELSE nullptr

\* A record that takes an element that is no definition as a module does: as
\* an expression to analyze.
Record_Phrase_analyze_elements ==
    /\ Active("Record_Phrase")
    /\ LET n == Len(Top.acc)
           args == Top.ph.args
           dict == Record_fields(args, Top.acc, n)
       IN  IF n = Len(args)
           THEN Return(Record_Expr(Top.ph, dict), envs)
           ELSE LET def == analyze_def(args[n + 1].expr)
                IN  IF def = nullptr
                    THEN Continue([Top EXCEPT !.pc = "loop",
                                      !.todo = <<Job(args[n + 1].expr, Top.env)>>],
                                  envs)
                    ELSE IF IsException(def) THEN Throw(def)
                    ELSE IF analyze_definition(def, dict) # nullptr
                    THEN Throw(analyze_definition(def, dict))
                    ELSE Continue([Top EXCEPT !.pc = "loop",
                                      !.todo = <<Job(def.definiens, Top.env)>>],
                                  envs)

\* Record_Phrase::analyze: one turn of the loop over args_ per step.
Record_Phrase_analyze ==
    /\ Active("Record_Phrase")
    /\ LET n == Len(Top.acc)
           args == Top.ph.args
           dict == Record_fields(args, Top.acc, n)
       IN  IF n = Len(args)
           THEN Return(Record_Expr(Top.ph, dict), envs)
           ELSE LET def == analyze_def(args[n + 1].expr)
                IN  IF def = nullptr
                    THEN Throw(Exception(args[n + 1].expr, "not a definition"))
                    ELSE IF IsException(def) THEN Throw(def)
                    ELSE IF analyze_definition(def, dict) # nullptr
                    THEN Throw(analyze_definition(def, dict))
                    ELSE Continue([Top EXCEPT !.pc = "loop",
                                      !.todo = <<Job(def.definiens, Top.env)>>],
                                  envs)

Sequence_Expr(src, elements) ==
    [kind |-> "Sequence_Expr", src |-> src, elements |-> elements]

\* A Semicolon_Phrase::analyze with its Sequence_Expr loop in place of the
\* exception: every element is analyzed and the sequence is returned.
Semicolon_Phrase_analyze_sequence ==
    /\ Active("Semicolon_Phrase")
    /\ IF Top.pc = "start"
       THEN Continue([Top EXCEPT
                        !.pc = "return",
                        !.todo = [k \in 1..Len(Top.ph.args) |->
                                    Job(Top.ph.args[k].expr, Top.env)]],
                     envs)
       ELSE IF Len(Top.ph.args) = 1
       THEN Return(Top.acc[1], envs)
       ELSE Return(Sequence_Expr(Top.ph, Top.acc), envs)

\* Semicolon_Phrase::analyze: one element is analyzed by analyze_op and its
\* Operation returned, any other number of elements is an exception.
Semicolon_Phrase_analyze ==
    /\ Active("Semicolon_Phrase")
    /\ IF Len(Top.ph.args) = 1
       THEN IF Top.pc = "start"
            THEN Continue([Top EXCEPT
                             !.pc = "return",
                             !.todo = <<Job(Top.ph.args[1].expr, Top.env)>>],
                          envs)
            ELSE Return(Top.acc[1], envs)
       ELSE Throw(Exception(Top.ph, "; phrase not implemented"))

(***************************************************************************)
(* The scanner and the phrases the parser makes                            *)
(***************************************************************************)

\* A Token: its kind and its place in the token stream (Token::first).
Token(k, i) == [kind |-> k, first |-> i]

\* Token{}: the separator of a last element without one, the `else' of an
\* `if' without one.
Token_missing == Token(k_missing, 0)

\* A Scanner at the start of its stream: pos tokens are read, lookahead
\* holds the pushed back tokens, the last pushed last.
Scanner == [pos |-> 0, lookahead |-> <<>>]

\* Scanner::get_token: the token pushed back last, else the next of the
\* stream, else k_end, again and again.
Scanner_get_token(s) ==
    IF s.lookahead # <<>>
    THEN [tok |-> s.lookahead[Len(s.lookahead)],
          scanner |-> [s EXCEPT !.lookahead = SubSeq(@, 1, Len(@) - 1)]]
    ELSE IF s.pos < Len(tokens)
    THEN [tok |-> Token(tokens[s.pos + 1], s.pos + 1),
          scanner |-> [s EXCEPT !.pos = @ + 1]]
    ELSE [tok |-> Token("k_end", Len(tokens) + 1), scanner |-> s]

\* Scanner::push_token.
Scanner_push_token(s, tok) == [s EXCEPT !.lookahead = Append(@, tok)]

make_Empty_Phrase(begin) == [kind |-> "Empty_Phrase", begin |-> begin]
make_Comma_Phrase(as) == [kind |-> "Comma_Phrase", args |-> as]
make_Program_Phrase(body, end) ==
    [kind |-> "Program_Phrase", body |-> body, end |-> end]
make_Primary(kind, tok) == [kind |-> kind, tok |-> tok]
make_Unary_Phrase(op, arg) == [kind |-> "Unary_Phrase", op |-> op, arg |-> arg]
make_Binary_Phrase(left, op, right) ==
    [kind |-> "Binary_Phrase", left |-> left, op |-> op, right |-> right]
make_Range_Phrase(first, op1, last, op2, step) ==
    [kind |-> "Range_Phrase", first |-> first, op1 |-> op1, last |-> last,
     op2 |-> op2, step |-> step]
make_Definition_Phrase(left, equate, right) ==
    [kind |-> "Definition_Phrase", left |-> left, equate |-> equate, right |-> right]
make_Lambda_Phrase(left, op, right) ==
    [kind |-> "Lambda_Phrase", left |-> left, op |-> op, right |-> right]
make_Call_Phrase(function, args, op) ==
    [kind |-> "Call_Phrase", function |-> function, args |-> args, op |-> op]
make_If_Phrase(if, condition, then_expr, else, else_expr) ==
    [kind |-> "If_Phrase", if |-> if, condition |-> condition,
     then_expr |-> then_expr, else |-> else, else_expr |-> else_expr]
make_For_Phrase(for, args, body) ==
    [kind |-> "For_Phrase", for |-> for, args |-> args, body |-> body]
make_Let_Phrase(let, args, body) ==
    [kind |-> "Let_Phrase", let |-> let, args |-> args, body |-> body]
make_Delimited(Ph, lparen, body, rparen) ==
    [kind |-> Ph, lparen |-> lparen, body |-> body, rparen |-> rparen]

(***************************************************************************)
(* The call stack of the parser                                            *)
(***************************************************************************)

\* parse_primary(scanner, nullptr): the primary is optional.
optional == ""

\* An activation of the function fn: pc is the place in the function, what
\* and close are its arguments, tok, tok2, left, right and args its locals,
\* ret is what the parse_ function it called last returned.
Call(fn) ==
    [fn |-> fn, pc |-> "start", what |-> optional, close |-> "", Ph |-> "",
     tok |-> Token_missing, tok2 |-> Token_missing,
     left |-> nullptr, right |-> nullptr, args |-> <<>>, ret |-> nullptr]

Call_primary(what) == [Call("parse_primary") EXCEPT !.what = what]

Call_delimited(Ph, tok, close) ==
    [Call("parse_delimited") EXCEPT !.Ph = Ph, !.tok = tok, !.close = close]

Cur == calls[Len(calls)]

Parsing(fn) == calls # <<>> /\ Cur.fn = fn

\* The innermost activation goes on as f and calls the parse_ function of
\* the activation callee; the scanner is left as s.
Enter(f, callee, s) ==
    /\ calls' = SubSeq(calls, 1, Len(calls) - 1) \o <<f, callee>>
    /\ scanner' = s
    /\ UNCHANGED <<tokens, parsed, analyzer_vars, bindings_vars>>

\* The innermost activation returns ph.
Leave(ph, s) ==
    /\ scanner' = s
    /\ IF Len(calls) = 1
       THEN /\ calls' = <<>>
            /\ parsed' = ph
       ELSE /\ calls' = Append(SubSeq(calls, 1, Len(calls) - 2),
                               [calls[Len(calls) - 1] EXCEPT !.ret = ph])
            /\ UNCHANGED parsed
    /\ UNCHANGED <<tokens, analyzer_vars, bindings_vars>>

\* An exception unwinds every activation.
Raise(exc, s) ==
    /\ calls' = <<>>
    /\ scanner' = s
    /\ parsed' = exc
    /\ UNCHANGED <<tokens, analyzer_vars, bindings_vars>>

(***************************************************************************)
(* The parse_ functions, one action each                                   *)
(***************************************************************************)

parse_program ==
    /\ Parsing("parse_program")
    /\ IF Cur.pc = "start"
       THEN Enter([Cur EXCEPT !.pc = "commas"], Call("parse_commas"), scanner)
       ELSE LET g == Scanner_get_token(scanner)
            IN  IF g.tok.kind # "k_end"
                THEN Raise(Exception(g.tok, "syntax error in program"), g.scanner)
                ELSE Leave(make_Program_Phrase(Cur.ret, g.tok), g.scanner)

is_list_end_token(k) == k \in {"k_end", "k_rparen", "k_rbracket", "k_rbrace"}

\* A parse_commas that makes a Comma_Phrase of every list, the list of one
\* element without a comma included.
parse_commas_always_list ==
    /\ Parsing("parse_commas")
    /\ IF Cur.pc = "start"
       THEN LET g == Scanner_get_token(scanner)
                s == Scanner_push_token(g.scanner, g.tok)
            IN  IF is_list_end_token(g.tok.kind)
                THEN Leave(make_Empty_Phrase(g.tok), s)
                ELSE Enter([Cur EXCEPT !.pc = "semis"], Call("parse_semicolons"), s)
       ELSE LET g == Scanner_get_token(scanner)
            IN  IF g.tok.kind = k_comma
                THEN LET as == Append(Cur.args, Arg(Cur.ret, g.tok))
                         g2 == Scanner_get_token(g.scanner)
                         s == Scanner_push_token(g2.scanner, g2.tok)
                     IN  IF is_list_end_token(g2.tok.kind)
                         THEN Leave(make_Comma_Phrase(as), s)
                         ELSE Enter([Cur EXCEPT !.args = as],
                                    Call("parse_semicolons"), s)
                ELSE IF is_list_end_token(g.tok.kind)
                THEN LET s == Scanner_push_token(g.scanner, g.tok)
                     IN  Leave(make_Comma_Phrase(
                                  Append(Cur.args, Arg(Cur.ret, Token_missing))), s)
                ELSE Raise(Exception(g.tok, "syntax error in comma phrase"), g.scanner)

parse_commas ==
    /\ Parsing("parse_commas")
    /\ IF Cur.pc = "start"
       THEN LET g == Scanner_get_token(scanner)
                s == Scanner_push_token(g.scanner, g.tok)
            IN  IF is_list_end_token(g.tok.kind)
                THEN Leave(make_Empty_Phrase(g.tok), s)
                ELSE Enter([Cur EXCEPT !.pc = "semis"], Call("parse_semicolons"), s)
       ELSE LET g == Scanner_get_token(scanner)
            IN  IF g.tok.kind = k_comma
                THEN LET as == Append(Cur.args, Arg(Cur.ret, g.tok))
                         g2 == Scanner_get_token(g.scanner)
                         s == Scanner_push_token(g2.scanner, g2.tok)
                     IN  IF is_list_end_token(g2.tok.kind)
                         THEN Leave(make_Comma_Phrase(as), s)
                         ELSE Enter([Cur EXCEPT !.args = as],
                                    Call("parse_semicolons"), s)
                ELSE IF is_list_end_token(g.tok.kind)
                THEN LET s == Scanner_push_token(g.scanner, g.tok)
                     IN  IF Cur.args = <<>>
                         THEN Leave(Cur.ret, s)
                         ELSE Leave(make_Comma_Phrase(
                                       Append(Cur.args, Arg(Cur.ret, Token_missing))), s)
                ELSE Raise(Exception(g.tok, "syntax error in comma phrase"), g.scanner)

is_semicolon_end_token(k) ==
    k \in {"k_end", "k_comma", "k_rparen", "k_rbracket", "k_rbrace"}

parse_semicolons ==
    /\ Parsing("parse_semicolons")
    /\ IF Cur.pc = "start"
       THEN Enter([Cur EXCEPT !.pc = "item"], Call("parse_item"), scanner)
       ELSE LET g == Scanner_get_token(scanner)
            IN  IF g.tok.kind = "k_semicolon"
                THEN LET as == Append(Cur.args, Arg(Cur.ret, g.tok))
                         g2 == Scanner_get_token(g.scanner)
                         s == Scanner_push_token(g2.scanner, g2.tok)
                     IN  IF is_semicolon_end_token(g2.tok.kind)
                         THEN Leave(Semicolon_Phrase(as), s)
                         ELSE Enter([Cur EXCEPT !.args = as], Call("parse_item"), s)
                ELSE IF is_semicolon_end_token(g.tok.kind)
                THEN LET s == Scanner_push_token(g.scanner, g.tok)
                     IN  IF Cur.args = <<>>
                         THEN Leave(Cur.ret, s)
                         ELSE Leave(Semicolon_Phrase(
                                       Append(Cur.args, Arg(Cur.ret, Token_missing))), s)
                ELSE Raise(Exception(g.tok, "syntax error in semicolon phrase"),
                           g.scanner)

\* A parse_item that leaves an `else' to the outer `if': an `if' that is the
\* then-phrase of another `if' takes no else.
parse_item_else_outermost ==
    /\ Parsing("parse_item")
    /\ CASE Cur.pc = "start" ->
              LET g == Scanner_get_token(scanner)
              IN  CASE g.tok.kind = "k_ellipsis" ->
                         Enter([Cur EXCEPT !.pc = "ellipsis", !.tok = g.tok],
                               Call("parse_item"), g.scanner)
                    [] g.tok.kind = "k_if" ->
                         Enter([Cur EXCEPT !.pc = "condition", !.tok = g.tok],
                               Call_primary("condition following 'if'"), g.scanner)
                    [] g.tok.kind = "k_for" ->
                         Enter([Cur EXCEPT !.pc = "for", !.tok = g.tok],
                               Call_primary("argument following 'for'"), g.scanner)
                    [] OTHER ->
                         Enter([Cur EXCEPT !.pc = "left"], Call("parse_disjunction"),
                               Scanner_push_token(g.scanner, g.tok))
         [] Cur.pc = "ellipsis" ->
              Leave(make_Unary_Phrase(Cur.tok, Cur.ret), scanner)
         [] Cur.pc = "condition" ->
              Enter([Cur EXCEPT !.pc = "then", !.left = Cur.ret],
                    Call("parse_item"), scanner)
         [] Cur.pc = "then" ->
              LET g == Scanner_get_token(scanner)
              IN  IF \/ g.tok.kind # "k_else"
                     \/ /\ calls[Len(calls) - 1].fn = "parse_item"
                        /\ calls[Len(calls) - 1].pc = "then"
                  THEN Leave(make_If_Phrase(Cur.tok, Cur.left, Cur.ret,
                                            Token_missing, nullptr),
                             Scanner_push_token(g.scanner, g.tok))
                  ELSE Enter([Cur EXCEPT !.pc = "else", !.right = Cur.ret,
                                         !.tok2 = g.tok],
                             Call("parse_item"), g.scanner)
         [] Cur.pc = "else" ->
              Leave(make_If_Phrase(Cur.tok, Cur.left, Cur.right, Cur.tok2, Cur.ret),
                    scanner)
         [] Cur.pc = "for" ->
              IF Cur.ret.kind # "Paren_Phrase"
              THEN Raise(Exception(Cur.ret, "for: malformed argument"), scanner)
              ELSE Enter([Cur EXCEPT !.pc = "body", !.left = Cur.ret],
                         Call("parse_item"), scanner)
         [] Cur.pc = "body" ->
              Leave(make_For_Phrase(Cur.tok, Cur.left, Cur.ret), scanner)
         [] Cur.pc = "left" ->
              LET g == Scanner_get_token(scanner)
              IN  IF g.tok.kind \in {"k_equate", "k_colon", "k_right_arrow",
                                     "k_left_call"}
                  THEN Enter([Cur EXCEPT !.pc = "right", !.left = Cur.ret,
                                         !.tok = g.tok],
                             Call("parse_item"), g.scanner)
                  ELSE Leave(Cur.ret, Scanner_push_token(g.scanner, g.tok))
         [] Cur.pc = "right" ->
              Leave(CASE Cur.tok.kind = "k_equate" ->
                           make_Definition_Phrase(Cur.left, Cur.tok, Cur.ret)
                      [] Cur.tok.kind = "k_colon" ->
                           make_Binary_Phrase(Cur.left, Cur.tok, Cur.ret)
                      [] Cur.tok.kind = "k_right_arrow" ->
                           make_Lambda_Phrase(Cur.left, Cur.tok, Cur.ret)
                      [] Cur.tok.kind = "k_left_call" ->
                           make_Call_Phrase(Cur.left, Cur.ret, Cur.tok),
                    scanner)

parse_item ==
    /\ Parsing("parse_item")
    /\ CASE Cur.pc = "start" ->
              LET g == Scanner_get_token(scanner)
              IN  CASE g.tok.kind = "k_ellipsis" ->
                         Enter([Cur EXCEPT !.pc = "ellipsis", !.tok = g.tok],
                               Call("parse_item"), g.scanner)
                    [] g.tok.kind = "k_if" ->
                         Enter([Cur EXCEPT !.pc = "condition", !.tok = g.tok],
                               Call_primary("condition following 'if'"), g.scanner)
                    [] g.tok.kind = "k_for" ->
                         Enter([Cur EXCEPT !.pc = "for", !.tok = g.tok],
                               Call_primary("argument following 'for'"), g.scanner)
                    [] OTHER ->
                         Enter([Cur EXCEPT !.pc = "left"], Call("parse_disjunction"),
                               Scanner_push_token(g.scanner, g.tok))
         [] Cur.pc = "ellipsis" ->
              Leave(make_Unary_Phrase(Cur.tok, Cur.ret), scanner)
         [] Cur.pc = "condition" ->
              Enter([Cur EXCEPT !.pc = "then", !.left = Cur.ret],
                    Call("parse_item"), scanner)
         [] Cur.pc = "then" ->
              LET g == Scanner_get_token(scanner)
              IN  IF g.tok.kind # "k_else"
                  THEN Leave(make_If_Phrase(Cur.tok, Cur.left, Cur.ret,
                                            Token_missing, nullptr),
                             Scanner_push_token(g.scanner, g.tok))
                  ELSE Enter([Cur EXCEPT !.pc = "else", !.right = Cur.ret,
                                         !.tok2 = g.tok],
                             Call("parse_item"), g.scanner)
         [] Cur.pc = "else" ->
              Leave(make_If_Phrase(Cur.tok, Cur.left, Cur.right, Cur.tok2, Cur.ret),
                    scanner)
         [] Cur.pc = "for" ->
              IF Cur.ret.kind # "Paren_Phrase"
              THEN Raise(Exception(Cur.ret, "for: malformed argument"), scanner)
              ELSE Enter([Cur EXCEPT !.pc = "body", !.left = Cur.ret],
                         Call("parse_item"), scanner)
         [] Cur.pc = "body" ->
              Leave(make_For_Phrase(Cur.tok, Cur.left, Cur.ret), scanner)
         [] Cur.pc = "left" ->
              LET g == Scanner_get_token(scanner)
              IN  IF g.tok.kind \in {"k_equate", "k_colon", "k_right_arrow",
                                     "k_left_call"}
                  THEN Enter([Cur EXCEPT !.pc = "right", !.left = Cur.ret,
                                         !.tok = g.tok],
                             Call("parse_item"), g.scanner)
                  ELSE Leave(Cur.ret, Scanner_push_token(g.scanner, g.tok))
         [] Cur.pc = "right" ->
              Leave(CASE Cur.tok.kind = "k_equate" ->
                           make_Definition_Phrase(Cur.left, Cur.tok, Cur.ret)
                      [] Cur.tok.kind = "k_colon" ->
                           make_Binary_Phrase(Cur.left, Cur.tok, Cur.ret)
                      [] Cur.tok.kind = "k_right_arrow" ->
                           make_Lambda_Phrase(Cur.left, Cur.tok, Cur.ret)
                      [] Cur.tok.kind = "k_left_call" ->
                           make_Call_Phrase(Cur.left, Cur.ret, Cur.tok),
                    scanner)

\* The for (;;) loop of parse_disjunction, parse_conjunction, parse_sum and
\* parse_product with left parsed: an operator of ops is followed by the next
\* operand, any other token is pushed back and left is returned.
Operator_loop(left, ops, operand) ==
    LET g == Scanner_get_token(scanner)
    IN  IF g.tok.kind \in ops
        THEN Enter([Cur EXCEPT !.pc = "right", !.left = left, !.tok = g.tok],
                   Call(operand), g.scanner)
        ELSE Leave(left, Scanner_push_token(g.scanner, g.tok))

parse_disjunction ==
    /\ Parsing("parse_disjunction")
    /\ CASE Cur.pc = "start" ->
              Enter([Cur EXCEPT !.pc = "left"], Call("parse_conjunction"), scanner)
         [] Cur.pc = "left" ->
              Operator_loop(Cur.ret, {"k_or", "k_right_call"}, "parse_conjunction")
         [] Cur.pc = "right" ->
              Operator_loop(IF Cur.tok.kind = "k_or"
                            THEN make_Binary_Phrase(Cur.left, Cur.tok, Cur.ret)
                            ELSE make_Call_Phrase(Cur.ret, Cur.left, Cur.tok),
                            {"k_or", "k_right_call"}, "parse_conjunction")

parse_conjunction ==
    /\ Parsing("parse_conjunction")
    /\ CASE Cur.pc = "start" ->
              Enter([Cur EXCEPT !.pc = "left"], Call("parse_relation"), scanner)
         [] Cur.pc = "left" ->
              Operator_loop(Cur.ret, {"k_and"}, "parse_relation")
         [] Cur.pc = "right" ->
              Operator_loop(make_Binary_Phrase(Cur.left, Cur.tok, Cur.ret),
                            {"k_and"}, "parse_relation")

parse_relation ==
    /\ Parsing("parse_relation")
    /\ CASE Cur.pc = "start" ->
              Enter([Cur EXCEPT !.pc = "left"], Call("parse_range"), scanner)
         [] Cur.pc = "left" ->
              LET g == Scanner_get_token(scanner)
              IN  IF g.tok.kind \in {"k_equal", "k_not_equal", "k_less",
                                     "k_less_or_equal", "k_greater",
                                     "k_greater_or_equal"}
                  THEN Enter([Cur EXCEPT !.pc = "right", !.left = Cur.ret,
                                         !.tok = g.tok],
                             Call("parse_range"), g.scanner)
                  ELSE Leave(Cur.ret, Scanner_push_token(g.scanner, g.tok))
         [] Cur.pc = "right" ->
              Leave(make_Binary_Phrase(Cur.left, Cur.tok, Cur.ret), scanner)

parse_range ==
    /\ Parsing("parse_range")
    /\ CASE Cur.pc = "start" ->
              Enter([Cur EXCEPT !.pc = "left"], Call("parse_sum"), scanner)
         [] Cur.pc = "left" ->
              LET g == Scanner_get_token(scanner)
              IN  IF g.tok.kind \in {"k_range", "k_open_range"}
                  THEN Enter([Cur EXCEPT !.pc = "right", !.left = Cur.ret,
                                         !.tok = g.tok],
                             Call("parse_sum"), g.scanner)
                  ELSE Leave(Cur.ret, Scanner_push_token(g.scanner, g.tok))
         [] Cur.pc = "right" ->
              LET g == Scanner_get_token(scanner)
              IN  IF g.tok.kind = "k_by"
                  THEN Enter([Cur EXCEPT !.pc = "step", !.right = Cur.ret,
                                         !.tok2 = g.tok],
                             Call("parse_sum"), g.scanner)
                  ELSE Leave(make_Range_Phrase(Cur.left, Cur.tok, Cur.ret,
                                               Token_missing, nullptr),
                             Scanner_push_token(g.scanner, g.tok))
         [] Cur.pc = "step" ->
              Leave(make_Range_Phrase(Cur.left, Cur.tok, Cur.right, Cur.tok2, Cur.ret),
                    scanner)

\* A parse_sum that takes a whole sum as the right operand of `+' and `-'.
parse_sum_groups_right ==
    /\ Parsing("parse_sum")
    /\ CASE Cur.pc = "start" ->
              Enter([Cur EXCEPT !.pc = "left"], Call("parse_product"), scanner)
         [] Cur.pc = "left" ->
              Operator_loop(Cur.ret, {"k_plus", "k_minus"}, "parse_sum")
         [] Cur.pc = "right" ->
              Operator_loop(make_Binary_Phrase(Cur.left, Cur.tok, Cur.ret),
                            {"k_plus", "k_minus"}, "parse_sum")

parse_sum ==
    /\ Parsing("parse_sum")
    /\ CASE Cur.pc = "start" ->
              Enter([Cur EXCEPT !.pc = "left"], Call("parse_product"), scanner)
         [] Cur.pc = "left" ->
              Operator_loop(Cur.ret, {"k_plus", "k_minus"}, "parse_product")
         [] Cur.pc = "right" ->
              Operator_loop(make_Binary_Phrase(Cur.left, Cur.tok, Cur.ret),
                            {"k_plus", "k_minus"}, "parse_product")

parse_product ==
    /\ Parsing("parse_product")
    /\ CASE Cur.pc = "start" ->
              Enter([Cur EXCEPT !.pc = "left"], Call("parse_unary"), scanner)
         [] Cur.pc = "left" ->
              Operator_loop(Cur.ret, {"k_times", "k_over"}, "parse_unary")
         [] Cur.pc = "right" ->
              Operator_loop(make_Binary_Phrase(Cur.left, Cur.tok, Cur.ret),
                            {"k_times", "k_over"}, "parse_unary")

parse_unary ==
    /\ Parsing("parse_unary")
    /\ CASE Cur.pc = "start" ->
              LET g == Scanner_get_token(scanner)
              IN  IF g.tok.kind \in {"k_plus", "k_minus", "k_not"}
                  THEN Enter([Cur EXCEPT !.pc = "arg", !.tok = g.tok],
                             Call("parse_unary"), g.scanner)
                  ELSE Enter([Cur EXCEPT !.pc = "postfix"], Call("parse_postfix"),
                             Scanner_push_token(g.scanner, g.tok))
         [] Cur.pc = "arg" ->
              Leave(make_Unary_Phrase(Cur.tok, Cur.ret), scanner)
         [] Cur.pc = "postfix" ->
              Leave(Cur.ret, scanner)

\* The for (;;) loop of parse_postfix with postfix parsed.
Postfix_loop(postfix) ==
    LET g == Scanner_get_token(scanner)
    IN  CASE g.tok.kind = "k_power" ->
               Enter([Cur EXCEPT !.pc = "power", !.left = postfix, !.tok = g.tok],
                     Call("parse_unary"), g.scanner)
          [] g.tok.kind = "k_dot" ->
               Enter([Cur EXCEPT !.pc = "dot", !.left = postfix, !.tok = g.tok],
                     Call_primary("expression following ."), g.scanner)
          [] g.tok.kind = "k_apostrophe" ->
               Enter([Cur EXCEPT !.pc = "dot", !.left = postfix, !.tok = g.tok],
                     Call_primary("expression following '"), g.scanner)
          [] OTHER ->
               Enter([Cur EXCEPT !.pc = "call", !.left = postfix, !.tok = g.tok],
                     Call_primary(optional),
                     Scanner_push_token(g.scanner, g.tok))

\* A parse_postfix that puts its token back once more when no primary
\* follows.
parse_postfix_restores ==
    /\ Parsing("parse_postfix")
    /\ CASE Cur.pc = "start" ->
              Enter([Cur EXCEPT !.pc = "primary"], Call_primary("expression"), scanner)
         [] Cur.pc = "primary" ->
              Postfix_loop(Cur.ret)
         [] Cur.pc = "power" ->
              Leave(make_Binary_Phrase(Cur.left, Cur.tok, Cur.ret), scanner)
         [] Cur.pc = "dot" ->
              Postfix_loop(make_Binary_Phrase(Cur.left, Cur.tok, Cur.ret))
         [] Cur.pc = "call" ->
              IF Cur.ret = nullptr
              THEN Leave(Cur.left, Scanner_push_token(scanner, Cur.tok))
              ELSE Postfix_loop(make_Call_Phrase(Cur.left, Cur.ret, Token_missing))

\* A parse_postfix whose juxtaposition loop goes on when no primary follows.
parse_postfix_loops ==
    /\ Parsing("parse_postfix")
    /\ CASE Cur.pc = "start" ->
              Enter([Cur EXCEPT !.pc = "primary"], Call_primary("expression"), scanner)
         [] Cur.pc = "primary" ->
              Postfix_loop(Cur.ret)
         [] Cur.pc = "power" ->
              Leave(make_Binary_Phrase(Cur.left, Cur.tok, Cur.ret), scanner)
         [] Cur.pc = "dot" ->
              Postfix_loop(make_Binary_Phrase(Cur.left, Cur.tok, Cur.ret))
         [] Cur.pc = "call" ->
              IF Cur.ret = nullptr
              THEN Postfix_loop(Cur.left)
              ELSE Postfix_loop(make_Call_Phrase(Cur.left, Cur.ret, Token_missing))

parse_postfix ==
    /\ Parsing("parse_postfix")
    /\ CASE Cur.pc = "start" ->
              Enter([Cur EXCEPT !.pc = "primary"], Call_primary("expression"), scanner)
         [] Cur.pc = "primary" ->
              Postfix_loop(Cur.ret)
         [] Cur.pc = "power" ->
              Leave(make_Binary_Phrase(Cur.left, Cur.tok, Cur.ret), scanner)
         [] Cur.pc = "dot" ->
              Postfix_loop(make_Binary_Phrase(Cur.left, Cur.tok, Cur.ret))
         [] Cur.pc = "call" ->
              IF Cur.ret = nullptr
              THEN Leave(Cur.left, scanner)
              ELSE Postfix_loop(make_Call_Phrase(Cur.left, Cur.ret, Token_missing))

\* A parse_delimited that reports the end of the stream where it found it:
\* at the k_end token.
parse_delimited_at_end ==
    /\ Parsing("parse_delimited")
    /\ IF Cur.pc = "start"
       THEN Enter([Cur EXCEPT !.pc = "body"], Call("parse_commas"), scanner)
       ELSE LET g == Scanner_get_token(scanner)
            IN  IF g.tok.kind = "k_end"
                THEN Raise(Exception(g.tok, "unmatched delimiter"), g.scanner)
                ELSE IF g.tok.kind # Cur.close
                THEN Raise(Exception(g.tok, "syntax error in delimited phrase"),
                           g.scanner)
                ELSE Leave(make_Delimited(Cur.Ph, Cur.tok, Cur.ret, g.tok), g.scanner)

parse_delimited ==
    /\ Parsing("parse_delimited")
    /\ IF Cur.pc = "start"
       THEN Enter([Cur EXCEPT !.pc = "body"], Call("parse_commas"), scanner)
       ELSE LET g == Scanner_get_token(scanner)
            IN  IF g.tok.kind = "k_end"
                THEN Raise(Exception(Cur.tok, "unmatched delimiter"), g.scanner)
                ELSE IF g.tok.kind # Cur.close
                THEN Raise(Exception(g.tok, "syntax error in delimited phrase"),
                           g.scanner)
                ELSE Leave(make_Delimited(Cur.Ph, Cur.tok, Cur.ret, g.tok), g.scanner)

\* What parse_primary does with a token that starts no primary.
No_primary(tok, s, unexpected) ==
    IF Cur.what # optional
    THEN Raise(Exception(tok, unexpected \o Cur.what), s)
    ELSE Leave(nullptr, Scanner_push_token(s, tok))

parse_primary ==
    /\ Parsing("parse_primary")
    /\ CASE Cur.pc = "start" ->
              LET g == Scanner_get_token(scanner)
              IN  CASE g.tok.kind = "k_num" ->
                         Leave(make_Primary("Numeral", g.tok), g.scanner)
                    [] g.tok.kind = "k_ident" ->
                         Leave(make_Primary("Identifier", g.tok), g.scanner)
                    [] g.tok.kind = "k_string" ->
                         Leave(make_Primary("String_Phrase", g.tok), g.scanner)
                    [] g.tok.kind = "k_let" ->
                         Enter([Cur EXCEPT !.pc = "let", !.tok = g.tok],
                               Call_primary("argument following 'let'"), g.scanner)
                    [] g.tok.kind = "k_lparen" ->
                         Enter([Cur EXCEPT !.pc = "delimited"],
                               Call_delimited("Paren_Phrase", g.tok, "k_rparen"),
                               g.scanner)
                    [] g.tok.kind = "k_lbracket" ->
                         Enter([Cur EXCEPT !.pc = "delimited"],
                               Call_delimited("Bracket_Phrase", g.tok, "k_rbracket"),
                               g.scanner)
                    [] g.tok.kind = "k_lbrace" ->
                         Enter([Cur EXCEPT !.pc = "delimited"],
                               Call_delimited("Brace_Phrase", g.tok, "k_rbrace"),
                               g.scanner)
                    [] g.tok.kind = "k_end" ->
                         No_primary(g.tok, g.scanner, "missing ")
                    [] OTHER ->
                         No_primary(g.tok, g.scanner,
                                    "unexpected token when expecting ")
         [] Cur.pc = "let" ->
              IF Cur.ret.kind # "Paren_Phrase"
              THEN Raise(Exception(Cur.ret, "let: malformed argument"), scanner)
              ELSE Enter([Cur EXCEPT !.pc = "body", !.left = Cur.ret],
                         Call("parse_item"), scanner)
         [] Cur.pc = "body" ->
              Leave(make_Let_Phrase(Cur.tok, Cur.left, Cur.ret), scanner)
         [] Cur.pc = "delimited" ->
              Leave(Cur.ret, scanner)

(***************************************************************************)
(* Bindings::add_definition called from outside                            *)
(***************************************************************************)

\* One call bindings.add_definition(def, env): the exception it throws is
\* caught and kept in thrown.
Bindings_add(def) ==
    LET b == Bindings_add_definition(bindings, def)
    IN  /\ bindings' = [b EXCEPT !.err = nullptr]
        /\ history' = Append(history, def)
        /\ thrown' = b.err
        /\ UNCHANGED <<analyzer_vars, parser_vars>>

(***************************************************************************)
(* The analyzed programs                                                   *)
(***************************************************************************)

\* How many binders may enclose the innermost expression of a program.
MaxDepth == 2

Def(a, e) == Definition_Phrase(Identifier(a), e)
Parens(es) == Paren_Phrase(Commas(es))

\* The innermost expressions: a name, the indexing a.[b], the sum a + b.
Uses ==
    { Identifier(x) : x \in Atoms }
    \cup { Binary_Phrase(Identifier("a"), "k_dot",
                         List_Phrase(Commas(<<Identifier("b")>>))),
           Binary_Phrase(Identifier("a"), "k_plus", Identifier("b")) }

\* The phrases that enclose a phrase e: lambdas (one parameter, a parameter
\* named as a builtin, two parameters, the same name twice), `let' (e as a
\* definiens before a backward reference, as the body after a forward
\* reference), `for' (e as the list, as the body) and a record field.
Wraps(e) ==
    { Lambda_Phrase(Identifier("a"), e, FALSE),
      Lambda_Phrase(Identifier("pi"), e, FALSE),
      Lambda_Phrase(Parens(<<Identifier("a"), Identifier("b")>>), e, FALSE),
      Lambda_Phrase(Parens(<<Identifier("a"), Identifier("b"), Identifier("b")>>), e, FALSE),
      Let_Phrase(Parens(<<Def("a", e), Def("b", Identifier("a"))>>), Identifier("b")),
      Let_Phrase(Parens(<<Def("a", Identifier("b")), Def("b", Identifier("pi"))>>), e),
      For_Phrase(Parens(<<Def("a", e)>>), Identifier("a")),
      For_Phrase(Parens(<<Def("b", Identifier("pi"))>>), e),
      Record_Phrase(Commas(<<Def("a", e)>>)) }

\* The expressions with at most d binders around a use.
RECURSIVE Nested(_)
Nested(d) ==
    IF d = 0 THEN Uses
    ELSE LET inner == Nested(d - 1)
         IN  inner \cup UNION { Wraps(e) : e \in inner }

Statement_list(sts) ==
    IF Len(sts) = 1 THEN sts[1]
    ELSE Semicolon_Phrase([i \in 1..Len(sts) |->
            Arg(sts[i], IF i < Len(sts) THEN "k_semicolon" ELSE k_missing)])

\* The modules around an expression e: e as the only element, as a field
\* before a constant field, as a field after the function b(pi) = a.
Modules(e) ==
    { Module_Phrase(e),
      Module_Phrase(Statement_list(<<Def("a", e), Def("b", Identifier("pi"))>>)),
      Module_Phrase(Statement_list(<<
          Definition_Phrase(Call_Phrase(Identifier("b"), Parens(<<Identifier("pi")>>)),
                            Identifier("a")),
          Def("a", e)>>)) }

\* Modules, records and lets that define a name twice.
Duplicates ==
    { Module_Phrase(Statement_list(<<Def("a", Identifier("pi")), Def("a", Identifier("b"))>>)),
      Module_Phrase(Statement_list(<<Def("a", Identifier("b")), Def("a", Identifier("pi"))>>)),
      Module_Phrase(Let_Phrase(Parens(<<Def("a", Identifier("pi")), Def("a", Identifier("b"))>>),
                               Identifier("a"))),
      Module_Phrase(Let_Phrase(Parens(<<Def("a", Identifier("b")), Def("a", Identifier("pi"))>>),
                               Identifier("a"))),
      Module_Phrase(Record_Phrase(Commas(<<Def("a", Identifier("pi")), Def("a", Identifier("b"))>>))),
      Module_Phrase(Record_Phrase(Commas(<<Def("a", Identifier("b")), Def("a", Identifier("pi"))>>))) }

\* Records: a field that uses the name of an earlier field of the record, an
\* element that is not a definition.
Records ==
    { Module_Phrase(Statement_list(<<
          Def("a", Record_Phrase(Commas(<<Def("a", Identifier("pi")),
                                          Def("b", Identifier("a"))>>))),
          Def("b", Identifier("pi"))>>)),
      Module_Phrase(Record_Phrase(Commas(<<Def("a", Identifier("pi")),
                                          Identifier("b")>>))) }

\* The right sides of a `.': a name, lists of none, one and two elements, a
\* list of one element and a comma, a parenthesis.
Dots ==
    { Module_Phrase(Binary_Phrase(Identifier("pi"), "k_dot", r)) :
        r \in { Identifier("b"),
                List_Phrase(<<>>),
                List_Phrase(Commas(<<Identifier("pi")>>)),
                List_Phrase(Commas(<<Identifier("pi"), Identifier("pi")>>)),
                List_Phrase(<<Arg(Identifier("pi"), k_comma)>>),
                Parens(<<Identifier("pi")>>) } }

\* Lambdas whose left side is not made of names.
Malformed_lambdas ==
    { Module_Phrase(Lambda_Phrase(l, Identifier("pi"), FALSE)) :
        l \in { Binary_Phrase(Identifier("a"), "k_dot", Identifier("b")),
                Parens(<<Identifier("a"),
                         Binary_Phrase(Identifier("a"), "k_dot", Identifier("b"))>>) } }

\* A function written `f(pi) = x.[pi]' next to the same function written
\* `g = (pi) -> x.[pi]', in a module, in a `let' and in a record.
Function_body(x) ==
    Binary_Phrase(Identifier(x), "k_dot", List_Phrase(Commas(<<Identifier("pi")>>)))

Function_pair(x) ==
    << Definition_Phrase(Call_Phrase(Identifier("a"), Parens(<<Identifier("pi")>>)),
                         Function_body(x)),
       Def("b", Lambda_Phrase(Parens(<<Identifier("pi")>>), Function_body(x), FALSE)) >>

Functions ==
    { Module_Phrase(Statement_list(Function_pair("a"))),
      Module_Phrase(Let_Phrase(Parens(Function_pair("a")), Identifier("b"))),
      Module_Phrase(Statement_list(<<
          Def("a", Record_Phrase(Commas(Function_pair("b")))),
          Def("b", Identifier("pi"))>>)) }

\* Definitions whose left side is a call of `a.b' or is `a.b' itself, in a
\* module, in a `let' and in a record.
Malformed_definitions ==
    UNION { { Module_Phrase(Definition_Phrase(l, Identifier("pi"))),
              Module_Phrase(Let_Phrase(Parens(<<Def("a", Identifier("pi")),
                                                Definition_Phrase(l, Identifier("pi"))>>),
                                       Identifier("a"))),
              Module_Phrase(Record_Phrase(Commas(<<Def("a", Identifier("pi")),
                                                   Definition_Phrase(l, Identifier("pi"))>>))) } :
            l \in { Binary_Phrase(Identifier("a"), "k_dot", Identifier("b")),
                    Call_Phrase(Binary_Phrase(Identifier("a"), "k_dot", Identifier("b")),
                                Parens(<<Identifier("pi")>>)) } }

\* Semicolon phrases as the index of `pi.[...]': `e;' for a constant, a
\* parameter, a name that is not defined and a lambda, then `pi; pi',
\* `pi; pi;' and `a; pi; b'.
Semicolons ==
    { Module_Phrase(Binary_Phrase(Identifier("pi"), "k_dot",
         List_Phrase(Commas(<<Semicolon_Phrase(<<Arg(e, "k_semicolon")>>)>>)))) :
        e \in { Identifier("pi"), Identifier("b"),
                Lambda_Phrase(Identifier("a"), Identifier("a"), FALSE) } }
    \cup
    { Module_Phrase(Lambda_Phrase(Identifier("a"),
         Binary_Phrase(Identifier("pi"), "k_dot",
            List_Phrase(Commas(<<Semicolon_Phrase(<<Arg(Identifier("a"),
                                                        "k_semicolon")>>)>>))),
         FALSE)) }
    \cup
    { Module_Phrase(Binary_Phrase(Identifier("pi"), "k_dot",
         List_Phrase(Commas(<<Semicolon_Phrase(as)>>)))) :
        as \in { <<Arg(Identifier("pi"), "k_semicolon"), Arg(Identifier("pi"), k_missing)>>,
                 <<Arg(Identifier("pi"), "k_semicolon"), Arg(Identifier("pi"), "k_semicolon")>>,
                 <<Arg(Identifier("a"), "k_semicolon"), Arg(Identifier("pi"), "k_semicolon"),
                   Arg(Identifier("b"), k_missing)>> } }

Programs ==
    UNION { Modules(e) : e \in Nested(MaxDepth) }
    \cup Duplicates \cup Records \cup Dots \cup Malformed_lambdas
    \cup Functions \cup Malformed_definitions \cup Semicolons

\* No parse_program call is made, no token stream is read.
Parser_idle ==
    /\ tokens = <<>>
    /\ scanner = Scanner
    /\ calls = <<>>
    /\ parsed = Running

\* The Bindings object is not used.
Bindings_idle ==
    /\ bindings = Bindings
    /\ history = <<>>
    /\ thrown = nullptr

Init ==
    /\ program \in Programs
    /\ stack = <<Frame(Job(program, 1))>>
    /\ envs = <<Builtin_Environ>>
    /\ result = Running
    /\ Parser_idle
    /\ Bindings_idle

Next ==
    \/ Identifier_analyze
    \/ Binary_Phrase_analyze
    \/ Lambda_Phrase_analyze
    \/ Let_Phrase_analyze
    \/ For_Phrase_analyze
    \/ Module_Phrase_analyze_module
    \/ Record_Phrase_analyze
    \/ Semicolon_Phrase_analyze

Spec == Init /\ [][Next]_vars

(***************************************************************************)
(* The parsed token streams                                                *)
(***************************************************************************)

\* The token kinds of the streams that are parsed whole.
Kinds ==
    {"k_ident", "k_lparen", "k_rparen", "k_comma", "k_semicolon",
     "k_if", "k_else", "k_dot", "k_plus"}

MaxTokens == 4

\* Every stream of at most MaxTokens tokens of Kinds.
Short_streams == UNION { [1..n -> Kinds] : n \in 0..MaxTokens }

MaxIfTokens == 7

\* Every stream of at most MaxIfTokens tokens that are `if', `else' and
\* identifiers.
If_else_streams ==
    UNION { [1..n -> {"k_if", "k_else", "k_ident"}] : n \in 0..MaxIfTokens }

\* Nested `if': if a if b c else d (within MaxIfTokens as well), longer
\* nestings, and nestings inside parentheses and lists.
If_streams ==
    { <<"k_if", "k_ident", "k_if", "k_ident", "k_ident", "k_else", "k_ident">>,
      <<"k_if", "k_ident", "k_if", "k_ident", "k_ident", "k_else", "k_ident",
        "k_else", "k_ident">>,
      <<"k_if", "k_ident", "k_if", "k_ident", "k_if", "k_ident", "k_ident",
        "k_else", "k_ident">>,
      <<"k_if", "k_ident", "k_ident", "k_else", "k_if", "k_ident", "k_ident",
        "k_else", "k_ident">>,
      <<"k_if", "k_ident", "k_if", "k_ident", "k_ident">>,
      <<"k_if", "k_ident", "k_ident", "k_else", "k_ident", "k_else", "k_ident">>,
      <<"k_if", "k_ident", "k_if", "k_ident", "k_if", "k_ident", "k_ident",
        "k_else", "k_ident", "k_else", "k_ident">>,
      <<"k_if", "k_ident", "k_lparen", "k_if", "k_ident", "k_ident", "k_rparen",
        "k_else", "k_ident">>,
      <<"k_if", "k_ident", "k_if", "k_ident", "k_ident", "k_semicolon",
        "k_if", "k_ident", "k_ident", "k_else", "k_ident">> }

\* Lists: a, b, c and a; b; c with and without the last separator, both
\* kinds of list in one another, in parentheses, brackets and braces.
List_streams ==
    { <<"k_ident", "k_comma", "k_ident", "k_comma", "k_ident">>,
      <<"k_ident", "k_comma", "k_ident", "k_comma", "k_ident", "k_comma">>,
      <<"k_ident", "k_semicolon", "k_ident", "k_semicolon", "k_ident">>,
      <<"k_ident", "k_semicolon", "k_ident", "k_semicolon", "k_ident", "k_semicolon">>,
      <<"k_ident", "k_semicolon", "k_ident", "k_comma", "k_ident", "k_semicolon">>,
      <<"k_ident", "k_semicolon", "k_comma", "k_ident", "k_semicolon", "k_comma">>,
      <<"k_lparen", "k_ident", "k_semicolon", "k_rparen">>,
      <<"k_lparen", "k_ident", "k_comma", "k_rparen", "k_comma", "k_ident">>,
      <<"k_lbracket", "k_ident", "k_semicolon", "k_ident", "k_rbracket">>,
      <<"k_lbrace", "k_ident", "k_equate", "k_num", "k_comma", "k_rbrace">>,
      <<"k_lbracket", "k_rbracket", "k_comma", "k_lbrace", "k_rbrace">> }

\* Streams that end inside (, [ and {.
Open_streams ==
    { <<"k_lparen", "k_lbracket", "k_ident">>,
      <<"k_lbracket", "k_lbrace", "k_ident", "k_comma">>,
      <<"k_lbrace", "k_lparen", "k_rparen", "k_ident", "k_semicolon">>,
      <<"k_lparen", "k_lbracket", "k_rbracket", "k_ident", "k_times">>,
      <<"k_lbracket", "k_let">>,
      <<"k_lparen", "k_let", "k_lbracket", "k_rbracket">>,
      <<"k_lbrace", "k_for", "k_ident">>,
      <<"k_lbrace", "k_ident", "k_rparen">>,
      <<"k_lbrace", "k_ident", "k_apostrophe">> }

\* The other phrases: operators of every level, definitions, lambdas, let,
\* for, calls, ranges, strings.
Operator_streams ==
    { <<"k_ident", "k_or", "k_ident", "k_and", "k_ident", "k_right_call", "k_ident">>,
      <<"k_ident", "k_less", "k_ident", "k_plus", "k_ident", "k_times", "k_ident">>,
      <<"k_ident", "k_over", "k_ident", "k_minus", "k_ident", "k_equal", "k_ident">>,
      <<"k_num", "k_range", "k_num", "k_by", "k_num">>,
      <<"k_num", "k_open_range", "k_num">>,
      <<"k_minus", "k_not", "k_ident", "k_power", "k_minus", "k_num">>,
      <<"k_ident", "k_apostrophe", "k_ident", "k_dot", "k_lbracket", "k_num", "k_rbracket">>,
      <<"k_ident", "k_lparen", "k_ident", "k_rparen", "k_equate", "k_ident", "k_string">>,
      <<"k_ident", "k_right_arrow", "k_ident", "k_colon", "k_ident">>,
      <<"k_ident", "k_left_call", "k_ellipsis", "k_ident">>,
      <<"k_let", "k_lparen", "k_ident", "k_equate", "k_num", "k_rparen", "k_ident">>,
      <<"k_let", "k_ident">>,
      <<"k_for", "k_lparen", "k_ident", "k_equate", "k_ident", "k_rparen", "k_ident">>,
      <<"k_for", "k_lbracket", "k_rbracket", "k_ident">>,
      <<"k_ident", "k_less", "k_ident", "k_less", "k_ident">> }

\* Every stream of an operand followed by at most MaxOperators times a
\* binary operator and an operand.
MaxOperators == 3

Binary_operators ==
    {"k_or", "k_and", "k_less", "k_equal", "k_plus", "k_minus", "k_times", "k_over"}

RECURSIVE Expressions_of(_)
Expressions_of(n) ==
    IF n = 0
    THEN {<<"k_ident">>}
    ELSE { s \o <<op, "k_ident">> : s \in Expressions_of(n - 1), op \in Binary_operators }

Expression_streams == UNION { Expressions_of(n) : n \in 0..MaxOperators }

Token_streams ==
    Short_streams \cup If_else_streams \cup If_streams \cup List_streams \cup Open_streams
    \cup Operator_streams \cup Expression_streams

\* No Phrase is analyzed.
Analyzer_idle ==
    /\ program = Numeral
    /\ stack = <<>>
    /\ envs = <<Builtin_Environ>>
    /\ result = Running

ParserInit ==
    /\ tokens \in Token_streams
    /\ scanner = Scanner
    /\ calls = <<Call("parse_program")>>
    /\ parsed = Running
    /\ Analyzer_idle
    /\ Bindings_idle

ParserNext ==
    \/ parse_program
    \/ parse_commas
    \/ parse_semicolons
    \/ parse_item
    \/ parse_disjunction
    \/ parse_conjunction
    \/ parse_relation
    \/ parse_range
    \/ parse_sum
    \/ parse_product
    \/ parse_unary
    \/ parse_postfix
    \/ parse_delimited
    \/ parse_primary

ParserSpec == ParserInit /\ [][ParserNext]_vars

\* parse_program runs on one thread and never waits: a step that can be
\* taken is taken.
ParserFairSpec == ParserInit /\ [][ParserNext]_vars /\ WF_vars(ParserNext)

(***************************************************************************)
(* The add_definition calls                                                *)
(***************************************************************************)

MaxCalls == 3

\* The Definitions handed to add_definition: each name with a constant and
\* with a lambda.
Definitions ==
    { Definition(Identifier(x), d) :
        x \in Atoms,
        d \in { Identifier("pi"),
                Lambda_Phrase(Identifier("a"), Identifier("a"), FALSE) } }

BindingsInit ==
    /\ Bindings_idle
    /\ Analyzer_idle
    /\ Parser_idle

BindingsNext ==
    \E def \in Definitions :
       /\ Len(history) < MaxCalls
       /\ Bindings_add(def)

BindingsSpec == BindingsInit /\ [][BindingsNext]_vars

(***************************************************************************)
(* What a step did                                                         *)
(***************************************************************************)

\* The step raised an exception.
Thrown == ~IsException(result) /\ IsException(result')

\* The innermost activation returned to its caller (or, the outermost, to the
\* driver) in this step.
Returned ==
    /\ stack # <<>>
    /\ ~IsException(result')
    /\ IF Len(stack) = 1 THEN stack' = <<>>
       ELSE /\ Len(stack') >= Len(stack) - 1
            /\ Len(stack'[Len(stack) - 1].acc) = Len(stack[Len(stack) - 1].acc) + 1

\* What the innermost activation returned in a step that is Returned.
ReturnedValue ==
    IF Len(stack) = 1 THEN result'
    ELSE stack'[Len(stack) - 1].acc[Len(stack'[Len(stack) - 1].acc)]

(***************************************************************************)
(* C1: duplicate definitions                                               *)
(***************************************************************************)

\* The elements of a module, a `let' or a record, in textual order.
ScopeElements(ph) ==
    IF ph.kind = "Module_Phrase" THEN Statements(ph.body)
    ELSE IF ph.kind = "Let_Phrase"
    THEN [i \in 1..Len(ph.args.args) |-> ph.args.args[i].expr]
    ELSE IF ph.kind = "Record_Phrase"
    THEN [i \in 1..Len(ph.args) |-> ph.args[i].expr]
    ELSE <<>>

IsDefinition(e) == analyze_def(e).kind = "Definition"

\* The elements that define a name an earlier element defines.
SecondOccurrences(ph) ==
    { j \in 1..Len(ScopeElements(ph)) :
        /\ IsDefinition(ScopeElements(ph)[j])
        /\ \E i \in 1..(j - 1) :
              /\ IsDefinition(ScopeElements(ph)[i])
              /\ analyze_def(ScopeElements(ph)[i]).name.atom
                    = analyze_def(ScopeElements(ph)[j]).name.atom }

HasDuplicate(ph) == SecondOccurrences(ph) # {}

FirstDuplicate(ph) ==
    CHOOSE j \in SecondOccurrences(ph) : \A k \in SecondOccurrences(ph) : j <= k

MultiplyDefined(ph) ==
    Exception(analyze_def(ScopeElements(ph)[FirstDuplicate(ph)]).name,
              ": multiply defined")

RECURSIVE Flatten(_)
Flatten(ss) == IF ss = <<>> THEN <<>> ELSE Head(ss) \o Flatten(Tail(ss))

\* A sequence without the later occurrences of its elements.
RECURSIVE FirstUses(_)
FirstUses(s) ==
    IF s = <<>> THEN <<>>
    ELSE LET front == FirstUses(SubSeq(s, 1, Len(s) - 1))
         IN  IF \E i \in 1..Len(front) : front[i] = s[Len(s)]
             THEN front
             ELSE Append(front, s[Len(s)])

Range(s) == { s[i] : i \in 1..Len(s) }

\* The names a parameter list binds.
ParameterNames(left) ==
    IF left.kind = "Identifier" THEN {left.atom}
    ELSE { left.args[i].expr.atom : i \in 1..Len(left.args) }

\* The name a definition binds and the phrase it binds it to: `f(x) = e'
\* binds f to the lambda of x and e.
DefinedName(el) == analyze_def(el).name.atom
Definiens(el) == analyze_def(el).definiens

\* The names a `let' binds.
LetNames(ph) ==
    { DefinedName(ph.args.args[i].expr) : i \in 1..Len(ph.args.args) }

\* The names a phrase uses and does not bind itself, one entry per use, in
\* the order of the text.
RECURSIVE FreeUses(_)
FreeUses(ph) ==
    CASE ph.kind = "Identifier" -> <<ph.atom>>
      [] ph.kind = "Binary_Phrase" -> FreeUses(ph.left) \o FreeUses(ph.right)
      [] ph.kind \in {"List_Phrase", "Paren_Phrase"} ->
            Flatten([i \in 1..Len(ph.args) |-> FreeUses(ph.args[i].expr)])
      [] ph.kind = "Record_Phrase" ->
            Flatten([i \in 1..Len(ph.args) |-> FreeUses(Definiens(ph.args[i].expr))])
      [] ph.kind = "Lambda_Phrase" ->
            SelectSeq(FreeUses(ph.right), LAMBDA x : x \notin ParameterNames(ph.left))
      [] ph.kind = "Let_Phrase" ->
            SelectSeq(Flatten([i \in 1..Len(ph.args.args) |->
                                 FreeUses(Definiens(ph.args.args[i].expr))])
                      \o FreeUses(ph.body),
                      LAMBDA x : x \notin LetNames(ph))
      [] ph.kind = "For_Phrase" ->
            FreeUses(ph.args.args[1].expr.right)
            \o SelectSeq(FreeUses(ph.body),
                         LAMBDA x : x # ph.args.args[1].expr.left.atom)
      [] OTHER -> <<>>

(***************************************************************************)
(* C2: the nonlocal list of a lambda                                       *)
(***************************************************************************)

\* A Lambda_Phrase::analyze whose body is analyzed: its next step returns.
LambdaReturns ==
    Active("Lambda_Phrase") /\ Top.pc = "body" /\ Len(Top.acc) = 1

\* What a name means in the scopes that enclose the lambda about to return.
OuterMeaning(x) == Environ_lookup(envs, Top.env, Identifier(x)).m

\* The names of the body that are not parameters and resolve outside the
\* lambda to an Operation that is no Constant, in the order of the text.
OuterOperations ==
    SelectSeq(FirstUses(FreeUses(Top.ph)),
              LAMBDA x : IsOperation(OuterMeaning(x)) /\ ~IsConstant(OuterMeaning(x)))

\* The names the lambda about to return has captured, in slot order.
CapturedNames ==
    LET env2 == envs[Top.env + 1]
    IN  [i \in 1..Len(env2.nonlocal_exprs) |->
            CHOOSE x \in Atoms : env2.nonlocal_dictionary[x] = i - 1]

\* The nonlocal dictionary and list of the lambda about to return agree: the
\* captured names have the slots 0..n-1, one each, and the entry of a name
\* is what the name means outside the lambda, never a Constant.
CapturesConsistent ==
    LET env2 == envs[Top.env + 1]
        n == Len(env2.nonlocal_exprs)
    IN  /\ \A x \in Atoms :
              env2.nonlocal_dictionary[x] # NoSlot =>
                 /\ env2.nonlocal_dictionary[x] \in 0..(n - 1)
                 /\ env2.nonlocal_exprs[env2.nonlocal_dictionary[x] + 1] = OuterMeaning(x)
        /\ \A i \in 1..n : \E x \in Atoms : env2.nonlocal_dictionary[x] = i - 1
        /\ \A x, y \in Atoms :
              ( /\ env2.nonlocal_dictionary[x] # NoSlot
                /\ env2.nonlocal_dictionary[x] = env2.nonlocal_dictionary[y] ) => x = y
        /\ \A i \in 1..n : ~IsConstant(env2.nonlocal_exprs[i])

\* C2 as stated: the nonlocal list of every Lambda_Expr has one entry per
\* distinct non-parameter name of the body that resolves outside the lambda
\* to a non-Constant Operation, in the order of first use in the text, and
\* no Constant.
C2_NonlocalsInTextOrder ==
    LambdaReturns =>
       /\ CapturesConsistent
       /\ CapturedNames = OuterOperations

\* C2, amended: the Lambda_Expr of a lambda that is not recursive has one
\* nonlocal entry per distinct non-parameter name of its body that resolves
\* outside the lambda to a non-Constant Operation, no entry twice and no
\* Constant; the entries are in the order in which the analysis first looked
\* the names up (every capture is appended, at the lookup of an Identifier),
\* which is not always the order of the text.  The Lambda_Expr of a
\* recursive lambda (a module field) has an empty nonlocal list.
C2_NonlocalsExact ==
    [][ /\ LambdaReturns =>
            /\ CapturesConsistent
            /\ Range(CapturedNames) =
                  IF Top.ph.recursive THEN {} ELSE Range(OuterOperations)
            /\ Returned
            /\ ReturnedValue.nonlocals = envs[Top.env + 1].nonlocal_exprs
        /\ \A e \in 1..Len(envs) :
              ( /\ e <= Len(envs')
                /\ envs'[e].nonlocal_exprs # envs[e].nonlocal_exprs ) =>
                 /\ Active("Identifier")
                 /\ envs[e].nonlocal_dictionary[Top.ph.atom] = NoSlot
                 /\ envs'[e].nonlocal_dictionary =
                       [envs[e].nonlocal_dictionary EXCEPT
                          ![Top.ph.atom] = Len(envs[e].nonlocal_exprs)]
                 /\ Len(envs'[e].nonlocal_exprs) = Len(envs[e].nonlocal_exprs) + 1
                 /\ SubSeq(envs'[e].nonlocal_exprs, 1, Len(envs[e].nonlocal_exprs))
                       = envs[e].nonlocal_exprs ]_vars

\* A lambda that captured two names, the second of the text first, returns.
C2_Witness ==
    /\ LambdaReturns
    /\ ~Top.ph.recursive
    /\ Len(CapturedNames) = 2
    /\ CapturedNames # OuterOperations

(***************************************************************************)
(* C3: frame_maxslots of parent and child                                  *)
(***************************************************************************)

\* The analysis of a phrase that made a child Environ is about to return:
\* the child is envs[Top.env + 1], the parent envs[Top.env].
ScopeReturns ==
    /\ stack # <<>>
    /\ \/ Top.ph.kind \in {"Lambda_Phrase", "Let_Phrase", "For_Phrase"} /\ Top.pc = "body"
       \/ Top.ph.kind = "Module_Phrase" /\ Top.pc = "make"

\* C3 as stated: when the analysis of a lambda, `let', `for' or module
\* returns, the parent's frame_maxslots is at least the frame_maxslots the
\* child Environ ended with.
C3_ParentAbsorbsEveryChild ==
    [][ScopeReturns =>
          envs'[Top.env].frame_maxslots >= envs[Top.env + 1].frame_maxslots]_vars

\* C3, amended: when the analysis of a `let' or a `for' returns, the parent's
\* frame_maxslots is the frame_maxslots the child Environ ended with, and no
\* step lowers the frame_maxslots of a live Environ, so it stays at least
\* that of every `let' and `for' child analyzed so far.  A lambda and a
\* module start a frame of their own: the parent's counters are left as they
\* were, and the child's frame_maxslots is recorded as the frame size of the
\* Lambda_Expr or Module_Expr.
C3_MaxslotsAbsorbed ==
    [][ /\ \A e \in 1..Len(envs) :
              e <= Len(envs') =>
                 /\ envs'[e].frame_maxslots >= envs[e].frame_maxslots
                 /\ envs'[e].frame_nslots = envs[e].frame_nslots
                 /\ envs'[e].frame_maxslots >= envs'[e].frame_nslots
        /\ ScopeReturns =>
              /\ Returned
              /\ Len(envs') = Top.env
              /\ Top.ph.kind \in {"Let_Phrase", "For_Phrase"} =>
                    /\ envs'[Top.env].frame_maxslots = envs[Top.env + 1].frame_maxslots
                    /\ envs[Top.env + 1].frame_maxslots >= envs[Top.env].frame_maxslots
              /\ Top.ph.kind = "Lambda_Phrase" =>
                    /\ envs'[Top.env] = envs[Top.env]
                    /\ ReturnedValue.nslots = envs[Top.env + 1].frame_maxslots
              /\ Top.ph.kind = "Module_Phrase" =>
                    /\ envs'[Top.env] = envs[Top.env]
                    /\ ReturnedValue.frame_nslots = envs[Top.env + 1].frame_maxslots
      ]_vars

\* A scope has taken over the frame_maxslots of a `let' or `for' it
\* encloses, and a lambda is about to return with a frame larger than its
\* parent's.
C3_Witness ==
    /\ ScopeReturns
    /\ Top.ph.kind = "Lambda_Phrase"
    /\ envs[Top.env + 1].frame_maxslots > envs[Top.env + 1].frame_nslots
    /\ envs[Top.env + 1].frame_maxslots > envs[Top.env].frame_maxslots

(***************************************************************************)
(* C4: reference slots and the frame                                       *)
(***************************************************************************)

IsRef(op) ==
    op.kind \in {"Arg_Ref", "Let_Ref", "Module_Ref", "Nonlocal_Ref",
                 "Nonlocal_Function_Ref"}

\* The reference nodes of an Operation that are evaluated in the frame the
\* Operation is evaluated in: those of the body of a nested lambda are not,
\* those of its nonlocal list are.
RECURSIVE FrameRefs(_)
FrameRefs(op) ==
    CASE IsRef(op) -> {op}
      [] op.kind = "Lambda_Expr" ->
            UNION { FrameRefs(op.nonlocals[i]) : i \in 1..Len(op.nonlocals) }
      [] op.kind = "Let_Expr" ->
            FrameRefs(op.body)
            \cup UNION { FrameRefs(op.values[i].expr) : i \in 1..Len(op.values) }
      [] op.kind = "For_Expr" -> FrameRefs(op.list) \cup FrameRefs(op.body)
      [] op.kind = "Infix_Expr" -> FrameRefs(op.left) \cup FrameRefs(op.right)
      [] op.kind = "Dot_Expr" -> FrameRefs(op.left)
      [] op.kind = "At_Expr" -> FrameRefs(op.left) \cup FrameRefs(op.index)
      [] op.kind = "Record_Expr" ->
            UNION { FrameRefs(op.fields[x]) :
                      x \in { y \in Atoms : op.fields[y] # nullptr } }
      [] OTHER -> {}

\* The slots of the references of a Lambda_Expr's body lie in its frame.
SlotsInFrame(lambda) ==
    \A r \in FrameRefs(lambda.body) :
        /\ r.kind = "Arg_Ref" => r.slot \in 0..(lambda.nargs - 1)
        /\ r.kind = "Let_Ref" => r.slot \in lambda.nargs..(lambda.nslots - 1)
        /\ r.kind = "Nonlocal_Ref" => r.slot \in 0..(Len(lambda.nonlocals) - 1)

\* C4: in the body of every Lambda_Expr (nested lambdas apart) each Arg_Ref
\* slot is in 0..nargs-1, each Let_Ref slot in nargs..nslots-1 and each
\* Nonlocal_Ref slot below the length of the lambda's nonlocal list.
C4_SlotsInFrame ==
    [][(LambdaReturns /\ Returned) => SlotsInFrame(ReturnedValue)]_vars

\* The same, for the lambdas whose parameters have different names.
C4_SlotsInFrameOfDistinctParameters ==
    [][( /\ LambdaReturns
         /\ Returned
         /\ Top.ph.left.kind = "Paren_Phrase" =>
               Cardinality(ParameterNames(Top.ph.left)) = Len(Top.ph.left.args) )
        => SlotsInFrame(ReturnedValue)]_vars

(***************************************************************************)
(* C5: the slots of one scope                                              *)
(***************************************************************************)

\* The names an Environ binds and the slots it gave them.
BoundNames(env) == { x \in Atoms : env.names[x] # NoSlot }
AssignedSlots(env) == { env.names[x] : x \in BoundNames(env) }

\* C5: the slots of the parameters of a lambda, of the bindings of a `let'
\* and of the fields of a module are the range [first, first + count), count
\* being the number of names the scope binds.
C5_SlotsContiguous ==
    \A e \in 1..Len(envs) :
        envs[e].kind \in {"Arg_Environ", "Let_Environ", "Bindings_Environ"} =>
           \E first \in 0..(envs[e].frame_nslots + 1) :
              AssignedSlots(envs[e]) =
                 first..(first + Cardinality(BoundNames(envs[e])) - 1)

\* The same, apart from the lambdas that name a parameter twice; the range
\* starts at 0 for parameters and fields and at the frame_nslots of the
\* enclosing Environ for a `let'.
C5_SlotsContiguousOfDistinctNames ==
    \A e \in 1..Len(envs) :
        ( /\ envs[e].kind \in {"Arg_Environ", "Let_Environ", "Bindings_Environ"}
          /\ envs[e].kind = "Arg_Environ" =>
                \A i \in 1..Len(stack) :
                   ( /\ stack[i].ph.kind = "Lambda_Phrase"
                     /\ stack[i].env = e - 1
                     /\ stack[i].ph.left.kind = "Paren_Phrase" ) =>
                      Cardinality(ParameterNames(stack[i].ph.left))
                         = Len(stack[i].ph.left.args) ) =>
           LET first == IF envs[e].kind = "Let_Environ"
                        THEN envs[e - 1].frame_nslots ELSE 0
           IN  AssignedSlots(envs[e]) =
                  first..(first + Cardinality(BoundNames(envs[e])) - 1)

(***************************************************************************)
(* C6: the kind of a reference, from the text of the program               *)
(***************************************************************************)

\* The definitions among the statements of a module, and whether the field
\* x is defined as a lambda.
FieldNames(ph) ==
    { analyze_def(Statements(ph.body)[i]).name.atom :
        i \in { j \in 1..Len(Statements(ph.body)) :
                  IsDefinition(Statements(ph.body)[j]) } }

FieldIsLambda(ph, x) ==
    \E i \in 1..Len(Statements(ph.body)) :
        /\ IsDefinition(Statements(ph.body)[i])
        /\ analyze_def(Statements(ph.body)[i]).name.atom = x
        /\ analyze_def(Statements(ph.body)[i]).definiens.kind = "Lambda_Phrase"

\* The phrase of the i-th activation is the definiens of a module field.
IsFieldDefiniens(i) ==
    /\ i > 1
    /\ stack[i - 1].ph.kind = "Module_Phrase"
    /\ Len(stack[i - 1].acc) < Cardinality(FieldNames(stack[i - 1].ph))

\* The phrase of the i-th activation is a lambda that captures what its body
\* uses from outside: every lambda but the definiens of a module field.
IsCapturingLambda(i) ==
    stack[i].ph.kind = "Lambda_Phrase" /\ ~IsFieldDefiniens(i)

\* The phrase being analyzed lies in the body of a lambda.
InLambdaBody == \E i \in 1..(Len(stack) - 1) : stack[i].ph.kind = "Lambda_Phrase"

\* The names the phrase of the i-th activation binds in the part of it that
\* is being analyzed.
BindsHere(i, x) ==
    CASE stack[i].ph.kind = "Lambda_Phrase" -> x \in ParameterNames(stack[i].ph.left)
      [] stack[i].ph.kind = "Let_Phrase" -> x \in LetNames(stack[i].ph)
      [] stack[i].ph.kind = "For_Phrase" ->
            stack[i].pc = "body" /\ x = stack[i].ph.args.args[1].expr.left.atom
      [] stack[i].ph.kind = "Module_Phrase" -> x \in FieldNames(stack[i].ph)
      [] OTHER -> FALSE

\* The kind of node the name x stands for, read off the phrases that enclose
\* its use, from the i-th activation outwards; crossed says that a capturing
\* lambda lies between the use and the i-th activation.
RECURSIVE ReferenceKind(_, _, _)
ReferenceKind(x, i, crossed) ==
    IF i = 0
    THEN IF x \in builtin_namespace THEN "Constant" ELSE "not defined"
    ELSE IF BindsHere(i, x)
    THEN IF crossed THEN "Nonlocal_Ref"
         ELSE CASE stack[i].ph.kind = "Lambda_Phrase" -> "Arg_Ref"
                [] stack[i].ph.kind \in {"Let_Phrase", "For_Phrase"} -> "Let_Ref"
                [] stack[i].ph.kind = "Module_Phrase" ->
                      IF FieldIsLambda(stack[i].ph, x)
                      THEN "Nonlocal_Function_Ref" ELSE "Module_Ref"
    ELSE ReferenceKind(x, i - 1, crossed \/ IsCapturingLambda(i))

\* C6: a name resolved inside a lambda body becomes the node its innermost
\* enclosing binder calls for: Arg_Ref for a parameter of the lambda, Let_Ref
\* for a `let' or `for' binding inside the lambda, Module_Ref for a
\* non-lambda module field and Nonlocal_Function_Ref for a lambda module
\* field (seen from the lambda that defines a field of that module),
\* Nonlocal_Ref for a binding outside a lambda that captures, and the
\* Constant itself for a builtin constant.
C6_ReferenceKind ==
    [][(Active("Identifier") /\ InLambdaBody) =>
          LET kind == ReferenceKind(Top.ph.atom, Len(stack) - 1, FALSE)
          IN  IF kind = "not defined"
              THEN Thrown /\ result' = Exception(Top.ph, ": not defined")
              ELSE /\ Returned
                   /\ ReturnedValue.kind = kind
                   /\ kind = "Constant" => ReturnedValue.value = Top.ph.atom]_vars

\* A lambda module field is used inside a lambda that captures.
C6_Witness ==
    /\ Active("Identifier")
    /\ InLambdaBody
    /\ ReferenceKind(Top.ph.atom, Len(stack) - 1, FALSE) = "Nonlocal_Ref"
    /\ \E i \in 1..(Len(stack) - 1) :
          /\ stack[i].ph.kind = "Module_Phrase"
          /\ FieldIsLambda(stack[i].ph, Top.ph.atom)
          /\ \A j \in (i + 1)..(Len(stack) - 1) : ~BindsHere(j, Top.ph.atom)

(***************************************************************************)
(* C7: the lambda fields of a module                                       *)
(***************************************************************************)

\* The slot of the field x of a module: the number of definitions before it.
FieldSlot(ph, x) ==
    LET stmts == Statements(ph.body)
        i == CHOOSE j \in 1..Len(stmts) :
                IsDefinition(stmts[j]) /\ analyze_def(stmts[j]).name.atom = x
    IN  Cardinality({ j \in 1..(i - 1) : IsDefinition(stmts[j]) })

\* The node the field x of a module is referred to by.
FieldRef(ph, x) ==
    IF FieldIsLambda(ph, x)
    THEN Nonlocal_Function_Ref(Identifier(x), FieldSlot(ph, x))
    ELSE Module_Ref(Identifier(x), FieldSlot(ph, x))

\* The i-th activation analyzes the lambda of a module field.
IsFieldLambda(i) == IsFieldDefiniens(i) /\ stack[i].ph.kind = "Lambda_Phrase"

\* The Identifier being analyzed refers to a field of the module of the m-th
\* activation from inside the body of the lambda of one of its fields.
RefersToField(m) ==
    /\ Active("Identifier")
    /\ m + 1 < Len(stack)
    /\ IsFieldLambda(m + 1)
    /\ Top.ph.atom \in FieldNames(stack[m].ph)
    /\ \A j \in (m + 1)..(Len(stack) - 1) : ~BindsHere(j, Top.ph.atom)

\* The lambdas nested in the field lambda that enclose the use.
CapturingBetween(m) ==
    { j \in (m + 2)..(Len(stack) - 1) : stack[j].ph.kind = "Lambda_Phrase" }

Answering ==
    { e \in 1..Top.env : Environ_single_lookup(envs, e, Top.ph).m # nullptr }

Innermost(S) == CHOOSE e \in S : \A f \in S : f <= e

\* C8: the lookup of a name gives what the single_lookup of the innermost
\* scope that does not answer absent gives, so that an inner binding
\* shadows an outer one; when every scope up to the root answers absent, it
\* raises "<name>: not defined".
C8_LookupInnermost ==
    [][Active("Identifier") =>
          IF Answering = {}
          THEN Thrown /\ result' = Exception(Top.ph, ": not defined")
          ELSE LET r == Environ_single_lookup(envs, Innermost(Answering), Top.ph)
               IN  IF IsException(r.m)
                   THEN Thrown /\ result' = r.m
                   ELSE /\ Returned
                        /\ ReturnedValue = r.m
                        /\ envs' = r.envs]_vars

\* A name is looked up that two scopes bind, the inner one not the scope the
\* Identifier is analyzed in.
C8_Witness ==
    /\ Active("Identifier")
    /\ Cardinality(Answering) >= 2
    /\ Innermost(Answering) < Top.env
    /\ ~IsException(Environ_single_lookup(envs, Innermost(Answering), Top.ph).m)

\* A name that no scope binds is looked up.
C8_WitnessNotDefined ==
    /\ Active("Identifier")
    /\ Top.env > 1
    /\ Answering = {}

(***************************************************************************)
(* C9: let                                                                 *)
(***************************************************************************)

\* The place (from 0) of the definition of x among the definitions of a `let'.
LetIndex(ph, x) ==
    (CHOOSE i \in 1..Len(ph.args.args) : DefinedName(ph.args.args[i].expr) = x) - 1

\* The lambdas that enclose the phrase being analyzed and lie inside the
\* phrase of the m-th activation.
LambdasInside(m) ==
    { j \in (m + 1)..(Len(stack) - 1) : stack[j].ph.kind = "Lambda_Phrase" }

\* The Identifier being analyzed is a name the `let' of the m-th activation
\* binds and nothing nearer binds.
RefersToLet(m) ==
    /\ Active("Identifier")
    /\ m < Len(stack)
    /\ stack[m].ph.kind = "Let_Phrase"
    /\ Top.ph.atom \in LetNames(stack[m].ph)
    /\ \A j \in (m + 1)..(Len(stack) - 1) : ~BindsHere(j, Top.ph.atom)

\* The step returns the reference `ref', or, under lambdas, a Nonlocal_Ref to
\* the entry `ref' of the nonlocal list of the outermost of them.
ResolvesTo(ref, lambdas) ==
    /\ Returned
    /\ IF lambdas = {}
       THEN ReturnedValue = ref
       ELSE LET j == CHOOSE k \in lambdas : \A l \in lambdas : k <= l
                env2 == envs'[stack[j].env + 1]
            IN  /\ ReturnedValue.kind = "Nonlocal_Ref"
                /\ env2.nonlocal_exprs[env2.nonlocal_dictionary[Top.ph.atom] + 1] = ref

ForName(ph) == ph.args.args[1].expr.left.atom
ForList(ph) == ph.args.args[1].expr.right

\* The Identifier being analyzed lies in the `for' of the m-th activation and
\* nothing between the two binds its name.
LiesInFor(m) ==
    /\ Active("Identifier")
    /\ m < Len(stack)
    /\ stack[m].ph.kind = "For_Phrase"
    /\ \A j \in (m + 1)..(Len(stack) - 1) : ~BindsHere(j, Top.ph.atom)

\* The step resolves the Identifier as the Environ of the m-th activation
\* does: with the same error, to the same Constant, to the same node, or,
\* under lambdas, to a capture of that node.
ResolvesAsOutside(m) ==
    LET r == Environ_lookup(envs, stack[m].env, Top.ph)
    IN  IF IsException(r.m) THEN Thrown /\ result' = r.m
        ELSE IF IsConstant(r.m) THEN Returned /\ ReturnedValue = r.m
        ELSE ResolvesTo(r.m, LambdasInside(m))

RecordNames(ph) ==
    { analyze_def(ph.args[i].expr).name.atom :
        i \in { j \in 1..Len(ph.args) : IsDefinition(ph.args[j].expr) } }

\* The Identifier being analyzed lies in a definiens of the record of the
\* m-th activation, names a field of that record, and nothing between the
\* two binds its name.
RefersToRecordName(m) ==
    /\ Active("Identifier")
    /\ m < Len(stack)
    /\ stack[m].ph.kind = "Record_Phrase"
    /\ Top.ph.atom \in RecordNames(stack[m].ph)
    /\ \A j \in (m + 1)..(Len(stack) - 1) : ~BindsHere(j, Top.ph.atom)

\* C11: a record makes no scope.  Each definiens is analyzed in the Environ
\* the record is analyzed in, and an occurrence of a field name of the
\* record in a definiens resolves as in that Environ (to the outer binding,
\* or to the error "<name>: not defined"), never to the field; an element
\* that is not a definition raises "not a definition".
C11_RecordNotRecursive ==
    [][ /\ Active("Record_Phrase") =>
              /\ ~Thrown => envs' = envs
              /\ (~Thrown /\ ~Returned) =>
                    /\ Len(stack') = Len(stack) + 1
                    /\ stack'[Len(stack')].env = Top.env
              /\ ( /\ Len(Top.acc) < Len(Top.ph.args)
                   /\ analyze_def(Top.ph.args[Len(Top.acc) + 1].expr) = nullptr ) =>
                    /\ Thrown
                    /\ result' = Exception(Top.ph.args[Len(Top.acc) + 1].expr,
                                           "not a definition")
        /\ \A m \in 1..Len(stack) :
              RefersToRecordName(m) => ResolvesAsOutside(m)
      ]_vars

\* In {a = pi, b = a} the a of the second field is looked up, the first
\* field being analyzed already, and an enclosing scope binds a.
C11_Witness ==
    /\ Active("Identifier")
    /\ Len(stack) > 1
    /\ stack[Len(stack) - 1].ph.kind = "Record_Phrase"
    /\ Len(stack[Len(stack) - 1].acc) = 1
    /\ Top.ph.atom \in RecordNames(stack[Len(stack) - 1].ph)
    /\ analyze_def(stack[Len(stack) - 1].ph.args[1].expr).name.atom = Top.ph.atom
    /\ ~IsException(Environ_lookup(envs, Top.env, Top.ph).m)

\* A record reaches an element that is not a definition.
C11_WitnessNotADefinition ==
    /\ Active("Record_Phrase")
    /\ Len(Top.acc) < Len(Top.ph.args)
    /\ analyze_def(Top.ph.args[Len(Top.acc) + 1].expr) = nullptr

(***************************************************************************)
(* C13: the operator `.'                                                   *)
(***************************************************************************)

DotStarts == Active("Binary_Phrase") /\ Top.ph.op = "k_dot" /\ Top.pc = "start"
DotReturns == Active("Binary_Phrase") /\ Top.ph.op = "k_dot" /\ Top.pc = "make"

\* The right side of a `.' is a bracketed list of one element and no comma.
IsIndex(right) ==
    /\ right.kind = "List_Phrase"
    /\ Len(right.args) = 1
    /\ right.args[1].comma = k_missing

\* The phrase whose Operation the analysis of ph returns: the element of a
\* semicolon phrase of one element, else ph.
Analyzed(ph) ==
    IF ph.kind = "Semicolon_Phrase" /\ Len(ph.args) = 1
    THEN ph.args[1].expr
    ELSE ph

\* What is the same in C13 as stated and as amended: a name on the right
\* gives Dot_Expr(lhs, atom), an index At_Expr(lhs, index), and nothing else
\* is analyzed.
DotResults ==
    /\ DotStarts =>
          (Top.ph.right.kind = "Identifier" \/ IsIndex(Top.ph.right)) <=> ~Thrown
    /\ DotReturns =>
          /\ Returned
          /\ IF Top.ph.right.kind = "Identifier"
             THEN /\ ReturnedValue.kind = "Dot_Expr"
                  /\ ReturnedValue.left.src = Top.ph.left
                  /\ ReturnedValue.atom = Top.ph.right.atom
             ELSE /\ ReturnedValue.kind = "At_Expr"
                  /\ ReturnedValue.left.src = Top.ph.left
                  /\ ReturnedValue.index.src = Analyzed(Top.ph.right.args[1].expr)

C12_OnePushedBack == Len(scanner.lookahead) <= 1

\* A syntax error was raised after a token was pushed back and read again:
\* `a b )' ends in "syntax error in program" at the `)' that parse_postfix,
\* parse_primary and parse_commas each pushed back.
C12_Witness ==
    /\ parsed = Exception(Token("k_rparen", 3), "syntax error in program")
    /\ scanner.lookahead = <<>>
    /\ scanner.pos = 3

\* A token is pushed back while the stream is read.
C12_WitnessPushedBack ==
    /\ calls # <<>>
    /\ scanner.pos = 2
    /\ scanner.lookahead = <<Token("k_plus", 2)>>

(***************************************************************************)
(* C16: the end of the stream inside ( [ {                                *)
(***************************************************************************)

\* The places of the ( [ { among the first n tokens that no ) ] } among them
\* closes, the innermost last.
RECURSIVE OpenDelimiters(_)
OpenDelimiters(n) ==
    IF n = 0 THEN <<>>
    ELSE LET open == OpenDelimiters(n - 1)
         IN  IF tokens[n] \in {"k_lparen", "k_lbracket", "k_lbrace"}
             THEN Append(open, n)
             ELSE IF tokens[n] \in {"k_rparen", "k_rbracket", "k_rbrace"}
                     /\ open # <<>>
             THEN SubSeq(open, 1, Len(open) - 1)
             ELSE open

\* The ( [ or { that is open at the end of the stream, as a token.
InnermostOpen ==
    LET open == OpenDelimiters(Len(tokens))
    IN  Token(tokens[open[Len(open)]], open[Len(open)])

\* The parser is at the end of a stream that leaves a ( [ or { open: the
\* token it reads next is k_end.
EndsInsideDelimiter ==
    /\ calls # <<>>
    /\ OpenDelimiters(Len(tokens)) # <<>>
    /\ Scanner_get_token(scanner).tok.kind = "k_end"

\* C16 as stated: whatever stands between the open delimiter and the end of
\* the stream, the diagnostic of the parse is "unmatched delimiter" at the
\* opening token.
C16_AlwaysUnmatchedDelimiter ==
    [][(EndsInsideDelimiter /\ calls' = <<>>) =>
          parsed' = Exception(InnermostOpen, "unmatched delimiter")]_vars

\* C16, amended: a stream that ends inside ( [ { never parses.  When the
\* end is read by parse_delimited, that is after a whole comma list or
\* after nothing, the diagnostic is "unmatched delimiter" at the token of
\* the innermost open delimiter.  When the end is read where a primary must
\* stand (after an operator, a `.', an `if', a `let', a `for'), the
\* diagnostic is "missing <what>" at the k_end token; and a `let' or `for'
\* whose argument is no parenthesis is reported as "malformed argument"
\* before the end is read.
C16_UnmatchedDelimiter ==
    [][EndsInsideDelimiter =>
          /\ Cur.fn = "parse_delimited" /\ Cur.pc = "body" =>
                parsed' = Exception(InnermostOpen, "unmatched delimiter")
          /\ calls' = <<>> =>
                \/ /\ Cur.fn = "parse_delimited"
                   /\ parsed' = Exception(InnermostOpen, "unmatched delimiter")
                \/ /\ Cur.fn = "parse_primary"
                   /\ Cur.pc = "start"
                   /\ Cur.what # optional
                   /\ parsed' = Exception(Token("k_end", Len(tokens) + 1),
                                          "missing " \o Cur.what)
                \/ /\ Cur.pc \in {"let", "for"}
                   /\ Cur.ret.kind # "Paren_Phrase"
                   /\ IsException(parsed')
                   /\ parsed'.at = Cur.ret
                   /\ parsed'.msg \in {"let: malformed argument",
                                        "for: malformed argument"}]_vars

\* `( [ a' was parsed: the diagnostic is at the `['.
C16_Witness ==
    /\ tokens = <<"k_lparen", "k_lbracket", "k_ident">>
    /\ parsed = Exception(Token("k_lbracket", 2), "unmatched delimiter")

(***************************************************************************)
(* The phrases inside a phrase                                             *)
(***************************************************************************)

\* The phrases a phrase of the parser is made of, in the order of the text.
Parts(ph) ==
    CASE ph.kind \in {"Program_Phrase", "Paren_Phrase", "Bracket_Phrase",
                      "Brace_Phrase"} -> <<ph.body>>
      [] ph.kind \in {"Comma_Phrase", "Semicolon_Phrase"} ->
            [i \in 1..Len(ph.args) |-> ph.args[i].expr]
      [] ph.kind = "Unary_Phrase" -> <<ph.arg>>
      [] ph.kind \in {"Binary_Phrase", "Definition_Phrase", "Lambda_Phrase"} ->
            <<ph.left, ph.right>>
      [] ph.kind = "Call_Phrase" ->
            IF ph.op.kind = "k_right_call"
            THEN <<ph.args, ph.function>>
            ELSE <<ph.function, ph.args>>
      [] ph.kind = "Range_Phrase" ->
            IF ph.step = nullptr THEN <<ph.first, ph.last>>
            ELSE <<ph.first, ph.last, ph.step>>
      [] ph.kind = "If_Phrase" ->
            IF ph.else_expr = nullptr THEN <<ph.condition, ph.then_expr>>
            ELSE <<ph.condition, ph.then_expr, ph.else_expr>>
      [] ph.kind \in {"For_Phrase", "Let_Phrase"} -> <<ph.args, ph.body>>
      [] OTHER -> <<>>

RECURSIVE Subphrases(_)
Subphrases(ph) ==
    {ph} \cup UNION { Subphrases(Parts(ph)[i]) : i \in 1..Len(Parts(ph)) }

(***************************************************************************)
(* C17: the dangling else                                                  *)
(***************************************************************************)

\* The `if' tokens among the first n tokens that have no `else' yet, the
\* nearest last, and the pairs <<if, else>> made so far when each `else'
\* goes to the nearest `if' that has none.
RECURSIVE NearestIf(_)
NearestIf(n) ==
    IF n = 0 THEN [open |-> <<>>, pairs |-> {}]
    ELSE LET p == NearestIf(n - 1)
         IN  IF tokens[n] = "k_if"
             THEN [p EXCEPT !.open = Append(@, n)]
             ELSE IF tokens[n] = "k_else" /\ p.open # <<>>
             THEN [open |-> SubSeq(p.open, 1, Len(p.open) - 1),
                   pairs |-> p.pairs \cup {<<p.open[Len(p.open)], n>>}]
             ELSE p

\* The `else' token claimed for the `if' at place i, Token{} if it has none.
ElseOf(i) ==
    IF \E e \in 1..Len(tokens) : <<i, e>> \in NearestIf(Len(tokens)).pairs
    THEN LET e == CHOOSE e \in 1..Len(tokens) :
                     <<i, e>> \in NearestIf(Len(tokens)).pairs
         IN  Token("k_else", e)
    ELSE Token_missing

\* A stream where no `if' stands inside ( [ {: a nesting of `if' alone.
NoDelimiters ==
    \A i \in 1..Len(tokens) : tokens[i] \notin {"k_lparen", "k_lbracket", "k_lbrace"}

\* In the phrase that was parsed, every `if' of the stream is one If_Phrase,
\* and its else is the `else' that is nearest-matched to it.
ElseAtNearestIf ==
    (parsed.kind = "Program_Phrase" /\ NoDelimiters) =>
       /\ \A i \in 1..Len(tokens) :
             tokens[i] = "k_if" =>
                \E ph \in Subphrases(parsed) :
                   ph.kind = "If_Phrase" /\ ph.if = Token("k_if", i)
       /\ \A ph \in Subphrases(parsed) :
             ph.kind = "If_Phrase" =>
                /\ ph.else = ElseOf(ph.if.first)
                /\ ph.else_expr = nullptr <=> ph.else = Token_missing

\* The phrase of `if a if b c else d'.
If_a_if_b_c_else_d ==
    make_If_Phrase(Token("k_if", 1), make_Primary("Identifier", Token("k_ident", 2)),
        make_If_Phrase(Token("k_if", 3),
                       make_Primary("Identifier", Token("k_ident", 4)),
                       make_Primary("Identifier", Token("k_ident", 5)),
                       Token("k_else", 6),
                       make_Primary("Identifier", Token("k_ident", 7))),
        Token_missing, nullptr)

\* C17: in a nesting of `if' phrases each `else' belongs to the nearest
\* `if' before it that has no `else' yet; `if a if b c else d' is
\* If_Phrase(a, If_Phrase(b, c, else d)) with no else on the outer
\* If_Phrase; and when the token after the then-phrase of an `if' is not
\* `else', parse_item returns an If_Phrase without else and pushes that
\* token back, so that it is the token read next.
C17_DanglingElse ==
    [][ /\ calls' = <<>> => ElseAtNearestIf'
        /\ ( /\ calls' = <<>>
             /\ tokens = <<"k_if", "k_ident", "k_if", "k_ident", "k_ident",
                           "k_else", "k_ident">> ) =>
              /\ parsed'.kind = "Program_Phrase"
              /\ parsed'.body = If_a_if_b_c_else_d
        /\ ( /\ Parsing("parse_item")
             /\ Cur.pc = "then"
             /\ Scanner_get_token(scanner).tok.kind # "k_else" ) =>
              /\ Len(calls') = Len(calls) - 1
              /\ calls'[Len(calls')].ret =
                    make_If_Phrase(Cur.tok, Cur.left, Cur.ret, Token_missing, nullptr)
              /\ scanner'.lookahead = <<Scanner_get_token(scanner).tok>>
              /\ Scanner_get_token(scanner').tok = Scanner_get_token(scanner).tok
      ]_vars

\* `if a if b c else d' was parsed.
C17_Witness ==
    /\ tokens = <<"k_if", "k_ident", "k_if", "k_ident", "k_ident", "k_else", "k_ident">>
    /\ parsed.kind = "Program_Phrase"
    /\ parsed.body = If_a_if_b_c_else_d

(***************************************************************************)
(* C18: comma and semicolon lists                                         *)
(***************************************************************************)

\* The places in the stream of the tokens a phrase is made of, in the order
\* of the text.
RECURSIVE Text(_)
Text(ph) ==
    CASE ph.kind \in {"Identifier", "Numeral", "String_Phrase"} -> <<ph.tok.first>>
      [] ph.kind = "Program_Phrase" -> Text(ph.body) \o <<ph.end.first>>
      [] ph.kind \in {"Paren_Phrase", "Bracket_Phrase", "Brace_Phrase"} ->
            <<ph.lparen.first>> \o Text(ph.body) \o <<ph.rparen.first>>
      [] ph.kind \in {"Comma_Phrase", "Semicolon_Phrase"} ->
            Flatten([i \in 1..Len(ph.args) |->
                       Text(ph.args[i].expr)
                       \o IF ph.args[i].comma.kind = k_missing THEN <<>>
                          ELSE <<ph.args[i].comma.first>>])
      [] ph.kind = "Unary_Phrase" -> <<ph.op.first>> \o Text(ph.arg)
      [] ph.kind \in {"Binary_Phrase", "Lambda_Phrase"} ->
            Text(ph.left) \o <<ph.op.first>> \o Text(ph.right)
      [] ph.kind = "Definition_Phrase" ->
            Text(ph.left) \o <<ph.equate.first>> \o Text(ph.right)
      [] ph.kind = "Call_Phrase" ->
            IF ph.op.kind = k_missing THEN Text(ph.function) \o Text(ph.args)
            ELSE IF ph.op.kind = "k_right_call"
            THEN Text(ph.args) \o <<ph.op.first>> \o Text(ph.function)
            ELSE Text(ph.function) \o <<ph.op.first>> \o Text(ph.args)
      [] ph.kind = "Range_Phrase" ->
            Text(ph.first) \o <<ph.op1.first>> \o Text(ph.last)
            \o IF ph.step = nullptr THEN <<>>
               ELSE <<ph.op2.first>> \o Text(ph.step)
      [] ph.kind = "If_Phrase" ->
            <<ph.if.first>> \o Text(ph.condition) \o Text(ph.then_expr)
            \o IF ph.else_expr = nullptr THEN <<>>
               ELSE <<ph.else.first>> \o Text(ph.else_expr)
      [] ph.kind = "For_Phrase" -> <<ph.for.first>> \o Text(ph.args) \o Text(ph.body)
      [] ph.kind = "Let_Phrase" -> <<ph.let.first>> \o Text(ph.args) \o Text(ph.body)
      [] OTHER -> <<>>

\* The places s are the tokens up to the token next, none left out.
RunUpTo(s, next) ==
    /\ s # <<>>
    /\ \A j \in 1..Len(s) : s[j] = next.first - 1 - Len(s) + j

\* The innermost activation, of parse_commas or parse_semicolons, returns in
\* this step.
ListReturns ==
    /\ calls # <<>>
    /\ Cur.fn \in {"parse_commas", "parse_semicolons"}
    /\ Len(calls') = Len(calls) - 1

\* What it returns: v with the separator kind K and the list kind L of the
\* function, the token after the list being next.
ListShape(v, K, L, next) ==
    IF v.kind = L
    THEN /\ Len(v.args) >= 1
         /\ \A i \in 1..Len(v.args) :
               /\ v.args[i].expr.kind # L
               /\ i < Len(v.args) => v.args[i].comma.kind = K
               /\ v.args[i].comma.kind \in {K, k_missing}
               /\ v.args[i].comma.kind = K =>
                     /\ tokens[v.args[i].comma.first] = K
                     /\ RunUpTo(Text(v.args[i].expr), v.args[i].comma)
         /\ Len(v.args) = 1 => v.args[1].comma.kind = K
         /\ v.args[Len(v.args)].comma.kind = k_missing <=> tokens[next.first - 1] # K
         /\ RunUpTo(Text(v), next)
    ELSE (v.kind # "Empty_Phrase") =>
            /\ next.kind # K
            /\ tokens[next.first - 1] # K
            /\ RunUpTo(Text(v), next)

\* C18: parse_commas and parse_semicolons return the element itself exactly
\* when the list is one element that no separator follows; every other list
\* that is not empty comes back as a Comma_Phrase / Semicolon_Phrase whose
\* args are the elements in the order of the stream, each with the
\* separator token that follows it, the last one with Token{} exactly when
\* the stream has no separator after it; and a stream that parses is the
\* text of its Program_Phrase, token by token.
C18_Lists ==
    [][ /\ ListReturns =>
              LET v == calls'[Len(calls')].ret
                  next == Scanner_get_token(scanner').tok
              IN  IF Cur.fn = "parse_commas"
                  THEN ListShape(v, k_comma, "Comma_Phrase", next)
                  ELSE ListShape(v, "k_semicolon", "Semicolon_Phrase", next)
        /\ (calls' = <<>> /\ parsed'.kind = "Program_Phrase") =>
              Text(parsed') = [j \in 1..(Len(tokens) + 1) |-> j]
      ]_vars

\* `a; b, c;' was parsed: a Comma_Phrase of the Semicolon_Phrase `a; b' and
\* the Semicolon_Phrase `c;' of one element.
C18_Witness ==
    /\ tokens = <<"k_ident", "k_semicolon", "k_ident", "k_comma", "k_ident",
                  "k_semicolon">>
    /\ parsed.kind = "Program_Phrase"
    /\ parsed.body.kind = "Comma_Phrase"
    /\ Len(parsed.body.args) = 2
    /\ parsed.body.args[1].comma = Token(k_comma, 4)
    /\ parsed.body.args[2].comma = Token_missing
    /\ parsed.body.args[1].expr.kind = "Semicolon_Phrase"
    /\ Len(parsed.body.args[1].expr.args) = 2
    /\ parsed.body.args[1].expr.args[2].comma = Token_missing
    /\ parsed.body.args[2].expr =
          Semicolon_Phrase(<<Arg(make_Primary("Identifier", Token("k_ident", 5)),
                                 Token("k_semicolon", 6))>>)

\* `a' alone was parsed: no list phrase is made.
C18_WitnessElement ==
    /\ tokens = <<"k_ident">>
    /\ parsed.kind = "Program_Phrase"
    /\ parsed.body = make_Primary("Identifier", Token("k_ident", 1))

(***************************************************************************)
(* C20: the dictionary and the slots of a Bindings                         *)
(***************************************************************************)

\* The calls of a sequence h of add_definition calls that are accepted: the
\* first one of each name.
RECURSIVE Accepted(_)
Accepted(h) ==
    IF h = <<>> THEN <<>>
    ELSE LET front == SubSeq(h, 1, Len(h) - 1)
             def == h[Len(h)]
         IN  IF \E j \in 1..Len(front) : front[j].name.atom = def.name.atom
             THEN Accepted(front)
             ELSE Append(Accepted(front), def)

\* The dictionary maps the N accepted names to 0..N-1 in the order of their
\* calls and no other name, slot_phrases_ has N entries, the entry i is the
\* definiens of the i-th accepted call (a Lambda_Phrase with recursive_ set).
DictionaryInOrder ==
    LET acc == Accepted(history)
    IN  /\ Len(bindings.slot_phrases) = Len(acc)
        /\ \A i \in 1..Len(acc) :
              /\ bindings.dictionary[acc[i].name.atom] = i - 1
              /\ bindings.slot_phrases[i] =
                    IF acc[i].definiens.kind = "Lambda_Phrase"
                    THEN [acc[i].definiens EXCEPT !.recursive = TRUE]
                    ELSE acc[i].definiens
        /\ \A x \in Atoms :
              (\A i \in 1..Len(acc) : acc[i].name.atom # x) =>
                 bindings.dictionary[x] = NoSlot
        /\ { bindings.dictionary[x] : x \in Atoms } \ {NoSlot} = 0..(Len(acc) - 1)

\* C20: after every add_definition call the dictionary and slot_phrases_
\* are as DictionaryInOrder says; the call of a name that an earlier call
\* gave throws "<name>: multiply defined" and leaves the dictionary,
\* cur_position_ and slot_phrases_ as they were, every other call throws
\* nothing.
C20_Bindings ==
    [][Len(history') = Len(history) + 1 =>
          LET def == history'[Len(history')]
          IN  /\ DictionaryInOrder'
              /\ IF \E j \in 1..Len(history) : history[j].name.atom = def.name.atom
                 THEN /\ thrown' = Exception(def.name, ": multiply defined")
                      /\ bindings' = bindings
                 ELSE /\ thrown' = nullptr
                      /\ Len(bindings'.slot_phrases) = Len(bindings.slot_phrases) + 1
                      /\ bindings'.dictionary[def.name.atom] = Len(bindings.slot_phrases)
      ]_vars

\* A name was accepted after the second definition of an earlier name was
\* rejected: it has the index 1.
C20_Witness ==
    /\ Len(history) = 3
    /\ history[1].name.atom = "b"
    /\ history[2].name.atom = "b"
    /\ history[3].name.atom = "a"
    /\ bindings.dictionary["b"] = 0
    /\ bindings.dictionary["a"] = 1
    /\ Len(bindings.slot_phrases) = 2
    /\ thrown = nullptr

\* The last call was rejected.
C20_WitnessRejected ==
    /\ Len(history) = 2
    /\ thrown = Exception(Identifier("a"), ": multiply defined")
    /\ Len(bindings.slot_phrases) = 1

(***************************************************************************)
(* C21: parse_program terminates                                           *)
(***************************************************************************)

\* The tokens of the stream that are not consumed: those not read yet and
\* those pushed back (k_end is never consumed).
Remaining ==
    Len(tokens) - scanner.pos
    + Cardinality({ i \in 1..Len(scanner.lookahead) :
                      scanner.lookahead[i].kind # "k_end" })

\* The functions with a for (;;) loop, and the places of the model where an
\* activation of one stands at the head of its loop.
LoopFunctions ==
    {"parse_commas", "parse_semicolons", "parse_disjunction", "parse_conjunction",
     "parse_sum", "parse_product", "parse_postfix"}

AtLoopHead ==
    /\ calls # <<>>
    /\ Cur.fn \in LoopFunctions
    /\ Cur.pc # "start"

\* The step returns from the innermost activation, raises, or calls.
StepReturns == Len(calls') = Len(calls) - 1
StepRaises == calls' = <<>> /\ IsException(parsed')
StepCalls == Len(calls') = Len(calls) + 1

\* The phrase a loop has put together when it goes round again.
LoopPhrase(f) ==
    IF f.fn = "parse_commas" THEN make_Comma_Phrase(f.args)
    ELSE IF f.fn = "parse_semicolons" THEN Semicolon_Phrase(f.args)
    ELSE f.left

\* C21: parse_program returns or raises on every token stream; no step
\* gives a consumed token back; a loop that goes round again has consumed a
\* token in that iteration (its phrase holds more tokens than before, or,
\* in parse_postfix, one token less remains when the operator is read), and
\* the juxtaposition loop of parse_postfix returns its phrase when
\* parse_primary(scanner, nullptr) comes back with nullptr, the token it
\* read being pushed back.
C21_Terminates ==
    /\ <>(calls = <<>> /\ parsed # Running)
    /\ [][ /\ Remaining' <= Remaining
           /\ AtLoopHead =>
                 \/ StepReturns
                 \/ StepRaises
                 \/ /\ StepCalls
                    /\ LET f == calls'[Len(calls)]
                       IN  \/ Remaining' < Remaining
                           \/ /\ Cur.fn = "parse_postfix"
                              /\ f.pc = "call"
                              /\ \/ Cur.pc # "call"
                                 \/ Len(Text(f.left)) > Len(Text(Cur.left))
           /\ ( /\ Parsing("parse_postfix")
                /\ Cur.pc = "call"
                /\ Cur.ret = nullptr ) =>
                 /\ StepReturns
                 /\ calls'[Len(calls')].ret = Cur.left
                 /\ scanner' = scanner
                 /\ scanner.lookahead = <<Cur.tok>>
         ]_vars

\* `a b' was parsed: the juxtaposition loop went round once and ended at
\* the end of the stream.
C21_Witness ==
    /\ tokens = <<"k_ident", "k_ident">>
    /\ calls = <<>>
    /\ parsed.kind = "Program_Phrase"
    /\ parsed.body.kind = "Call_Phrase"
    /\ scanner.pos = 2

(***************************************************************************)
(* C22: precedence and grouping of the binary operators                    *)
(***************************************************************************)

Comparisons ==
    {"k_equal", "k_not_equal", "k_less", "k_less_or_equal", "k_greater",
     "k_greater_or_equal"}

\* The stream is operand, operator, operand, ..., operand.
IsExpression ==
    /\ Len(tokens) % 2 = 1
    /\ \A i \in 1..Len(tokens) :
          IF i % 2 = 1
          THEN tokens[i] = "k_ident"
          ELSE tokens[i] \in Binary_operators \cup Comparisons

\* The level of an operator in the grammar, the loosest first.
Level(k) ==
    CASE k = "k_or" -> 1
      [] k = "k_and" -> 2
      [] k \in Comparisons -> 3
      [] k \in {"k_plus", "k_minus"} -> 4
      [] k \in {"k_times", "k_over"} -> 5

\* The tree of the grammar for the tokens lo..hi: the loosest operator is at
\* the root, the last of them when there are several (grouping to the left).
RECURSIVE Prescribed(_, _)
Prescribed(lo, hi) ==
    IF lo = hi
    THEN make_Primary("Identifier", Token(tokens[lo], lo))
    ELSE LET ops == { i \in lo..hi : i % 2 = 0 }
             loosest == { i \in ops : \A j \in ops : Level(tokens[i]) <= Level(tokens[j]) }
             root == CHOOSE i \in loosest : \A j \in loosest : j <= i
         IN  make_Binary_Phrase(Prescribed(lo, root - 1), Token(tokens[root], root),
                                Prescribed(root + 1, hi))

\* The comparison operators that follow a comparison of the same relation:
\* no `&&' or `||' stands between the two.
SecondComparisons ==
    { i \in 1..Len(tokens) :
        /\ tokens[i] \in Comparisons
        /\ \E j \in 1..(i - 1) :
              /\ tokens[j] \in Comparisons
              /\ \A k \in (j + 1)..(i - 1) : tokens[k] \notin {"k_and", "k_or"} }

FirstSecondComparison ==
    CHOOSE i \in SecondComparisons : \A j \in SecondComparisons : i <= j

\* C22: on a stream of operands and binary operators the parser builds the
\* tree of the grammar (`*' `/' tighter than `+' `-', then the comparisons,
\* then `&&', then `||', each chain but the comparisons grouping to the
\* left); a second comparison operator of one relation is not consumed and
\* the parse ends in the syntax error that parse_semicolons raises at that
\* operator.
C22_Precedence ==
    (IsExpression /\ calls = <<>> /\ parsed # Running) =>
        IF SecondComparisons = {}
        THEN parsed = make_Program_Phrase(Prescribed(1, Len(tokens)),
                                          Token("k_end", Len(tokens) + 1))
        ELSE parsed = Exception(Token(tokens[FirstSecondComparison],
                                      FirstSecondComparison),
                                "syntax error in semicolon phrase")

\* `a - b * c + d || e' was parsed as `((a - (b * c)) + d) || e'.
C22_Witness ==
    /\ tokens = <<"k_ident", "k_minus", "k_ident", "k_times", "k_ident", "k_plus",
                  "k_ident">>
    /\ calls = <<>>
    /\ parsed.kind = "Program_Phrase"
    /\ parsed.body.op.first = 6
    /\ parsed.body.left.op.first = 2
    /\ parsed.body.left.right.op.first = 4

\* `a < b + c < d' ended in a syntax error at the second `<'.
C22_WitnessSecondComparison ==
    /\ tokens = <<"k_ident", "k_less", "k_ident", "k_plus", "k_ident", "k_less",
                  "k_ident">>
    /\ calls = <<>>
    /\ IsException(parsed)
    /\ parsed.at = Token("k_less", 6)

(***************************************************************************)
(* C23: slots of nested binders                                            *)
(***************************************************************************)

\* The slots an Environ hands out: of the parameters (Arg_Environ), of the
\* definitions of a `let' (Let_Environ), of the variable of a `for'.
SlotsOf(env) == { env.names[x] : x \in Atoms } \ {NoSlot}

\* envs[d] encloses envs[e] in one activation frame: only `let' and `for'
\* stand between the two (a lambda, a module and a record start a frame).
EnclosesInFrame(d, e) ==
    /\ d < e
    /\ \A k \in (d + 1)..e : envs[k].kind \in {"Let_Environ", "For_Environ"}
    /\ envs[d].kind \in {"Let_Environ", "For_Environ", "Arg_Environ"}

\* The parameters of envs[d] have the slots 0..frame_nslots-1: no name is
\* written twice in the parameter list.
DistinctlyNamed(d) ==
    envs[d].kind = "Arg_Environ" =>
        \A a \in SlotsOf(envs[d]) : a < envs[d].frame_nslots

NestedSlotsDisjoint(distinctOnly) ==
    \A e \in 1..Len(envs), d \in 1..Len(envs) :
        (EnclosesInFrame(d, e) /\ (distinctOnly => DistinctlyNamed(d))) =>
            /\ \A a \in SlotsOf(envs[d]), b \in SlotsOf(envs[e]) : a < b
            /\ \A b \in SlotsOf(envs[e]) :
                  envs[d].frame_nslots <= b /\ b < envs[e].frame_nslots

\* C23: the slots of a `let' or `for' analyzed inside an enclosing `let',
\* `for' or lambda body of the same frame start at or above the end of the
\* slots of every enclosing binder and of the parameters, so the slot ranges
\* along a nesting path are pairwise disjoint.
C23_NestedSlots == NestedSlotsDisjoint(FALSE)

\* The same for the frames whose parameters have different names.
C23_DistinctParameters == NestedSlotsDisjoint(TRUE)

\* A `let' is analyzed in the body of a lambda of two parameters of
\* different names: its slots start at 2.
C23_Witness ==
    /\ Len(envs) >= 2
    /\ envs[Len(envs)].kind = "Let_Environ"
    /\ EnclosesInFrame(Len(envs) - 1, Len(envs))
    /\ envs[Len(envs) - 1].kind = "Arg_Environ"
    /\ envs[Len(envs) - 1].frame_nslots = 2
    /\ DistinctlyNamed(Len(envs) - 1)
    /\ SlotsOf(envs[Len(envs)]) = {2, 3}

(***************************************************************************)
(* C24: the counters of the Environ an analysis is given                   *)
(***************************************************************************)

\* The analysis of a `let' or a `for' in envs[e] returns in this step.
BinderReturnsIn(e) ==
    /\ stack # <<>>
    /\ Top.ph.kind \in {"Let_Phrase", "For_Phrase"}
    /\ Top.pc = "body"
    /\ Top.env = e
    /\ Returned

\* C24: no step changes the frame_nslots of an Environ or lowers its
\* frame_maxslots; frame_maxslots changes only when the analysis of a `let'
\* or a `for' in that Environ returns, and then to the frame_maxslots of the
\* child Environ; frame_nslots <= frame_maxslots in every Let_Environ,
\* For_Environ and Arg_Environ.
C24_Counters ==
    [][ /\ \A e \in 1..Len(envs) :
              e <= Len(envs') =>
                 /\ envs'[e].kind = envs[e].kind
                 /\ envs'[e].frame_nslots = envs[e].frame_nslots
                 /\ envs'[e].frame_maxslots >= envs[e].frame_maxslots
                 /\ envs'[e].frame_maxslots # envs[e].frame_maxslots =>
                       /\ BinderReturnsIn(e)
                       /\ envs'[e].frame_maxslots = envs[e + 1].frame_maxslots
        /\ \A e \in 1..Len(envs') :
              envs'[e].kind \in {"Let_Environ", "For_Environ", "Arg_Environ"} =>
                 envs'[e].frame_nslots <= envs'[e].frame_maxslots
      ]_vars

\* The analysis of a `let' or `for' has raised the frame_maxslots of the
\* Arg_Environ it was given, which started with frame_maxslots =
\* frame_nslots = 2.
C24_Witness ==
    \E e \in 1..Len(envs) :
        /\ envs[e].kind = "Arg_Environ"
        /\ envs[e].frame_nslots = 2
        /\ envs[e].frame_maxslots > 2
        /\ Len(envs) = e

(***************************************************************************)
(* C19: semicolon phrases                                                  *)
(***************************************************************************)

\* C19: the analysis of a Semicolon_Phrase of one element (`item ;') calls
\* analyze_op on that element in the Environ it was given and returns the
\* Operation that call returned, leaving the Environ chain as the element
\* left it; the analysis of a Semicolon_Phrase of two or more elements
\* raises "; phrase not implemented" at the phrase before any element is
\* analyzed, and returns nothing.
C19_SemicolonPhrase ==
    [][Active("Semicolon_Phrase") =>
          IF Len(Top.ph.args) = 1
          THEN IF Top.acc = <<>>
               THEN /\ ~Thrown
                    /\ Len(stack') = Len(stack) + 1
                    /\ stack'[Len(stack')] = Frame(Job(Top.ph.args[1].expr, Top.env))
                    /\ envs' = envs
               ELSE /\ Len(Top.acc) = 1
                    /\ Returned
                    /\ ReturnedValue = Top.acc[1]
                    /\ envs' = envs
          ELSE Len(Top.ph.args) >= 2 =>
                  /\ Top.acc = <<>>
                  /\ Thrown
                  /\ ~Returned
                  /\ result' = Exception(Top.ph, "; phrase not implemented")]_vars

\* `a -> pi.[a;]' was analyzed: the index of the At_Expr is the Arg_Ref that
\* `a' alone is.
C19_Witness ==
    /\ program \in Semicolons
    /\ result.kind = "Module_Expr"
    /\ result.elements[1].kind = "Lambda_Expr"
    /\ result.elements[1].body.kind = "At_Expr"
    /\ result.elements[1].body.index = Arg_Ref(Identifier("a"), 0)

\* `pi.[pi; pi]' was rejected.
C19_WitnessNotImplemented ==
    /\ program \in Semicolons
    /\ IsException(result)
    /\ result.msg = "; phrase not implemented"
    /\ Len(result.at.args) = 2

(***************************************************************************)
(* C15: f(args) = body                                                     *)
(***************************************************************************)

\* A definition written f(args) = body, and the definition f = args -> body.
IsSugar(el) ==
    /\ el.kind = "Definition_Phrase"
    /\ el.left.kind = "Call_Phrase"
    /\ el.left.function.kind = "Identifier"

Desugared(el) ==
    Definition_Phrase(el.left.function,
                      Lambda_Phrase(el.left.args, el.right, FALSE))

\* e is the definition g = args -> body of the function that s defines.
SameFunction(s, e) ==
    /\ IsSugar(s)
    /\ e.kind = "Definition_Phrase"
    /\ e.left.kind = "Identifier"
    /\ e.right = Desugared(s).right

\* The IR that the Module_Expr, Let_Expr or Record_Expr v of the phrase ph
\* holds for the name x.
DefinedIR(v, ph, x) ==
    CASE ph.kind = "Module_Phrase" -> v.slots[v.dictionary[x] + 1]
      [] ph.kind = "Let_Phrase" -> v.values[LetIndex(ph, x) + 1]
      [] ph.kind = "Record_Phrase" -> v.fields[x]

\* A definition whose left side is neither a name nor the call of a name,
\* and the exception claimed for it.
MalformedDefiniendum(el) ==
    /\ el.kind = "Definition_Phrase"
    /\ el.left.kind # "Identifier"
    /\ ~IsSugar(el)

DefiniendumError(el) ==
    IF el.left.kind = "Call_Phrase"
    THEN Exception(el.left.function, "not an identifier")
    ELSE Exception(el.left, "invalid definiendum")

\* The step of the innermost activation is the one that reaches the j-th
\* element of its module, `let' or record, every earlier element being a
\* definition of a name of its own.
ReachesElement(j) ==
    LET els == ScopeElements(Top.ph)
    IN  /\ \A k \in 1..(j - 1) : IsDefinition(els[k])
        /\ \A k \in SecondOccurrences(Top.ph) : k > j
        /\ IF Top.ph.kind = "Record_Phrase"
           THEN Len(Top.acc) + 1 = j
           ELSE Top.pc = "start"

\* C15: in a module, a `let' and a record, f(args) = body is the definition
\* that f = args -> body is: analyze_def gives the same name and the same
\* definiens, and the IR built for it (reference kinds, slots, nargs, nslots,
\* Lambda or Thunk by the recursive marking) is the IR built for the
\* definition g = args -> body standing in the same scope.  A definiendum
\* that is the call of a non-identifier raises "not an identifier" at the
\* called phrase, any other non-identifier definiendum raises "invalid
\* definiendum" at the definiendum.
C15_DefinitionSugar ==
    [][\A i \in 1..Len(stack) :
          LET els == ScopeElements(stack[i].ph)
          IN  \A j \in 1..Len(els) :
                 /\ IsSugar(els[j]) =>
                       /\ analyze_def(els[j]) = analyze_def(Desugared(els[j]))
                       /\ analyze_def(els[j]).name = els[j].left.function
                       /\ (i = Len(stack) /\ Returned) =>
                             \A k \in 1..Len(els) :
                                SameFunction(els[j], els[k]) =>
                                   DefinedIR(ReturnedValue, Top.ph,
                                             els[j].left.function.atom)
                                   = DefinedIR(ReturnedValue, Top.ph, els[k].left.atom)
                 /\ ( /\ i = Len(stack)
                      /\ MalformedDefiniendum(els[j])
                      /\ ReachesElement(j) ) =>
                       /\ Thrown
                       /\ result' = DefiniendumError(els[j])]_vars

\* A module was analyzed that defines one function both ways: its two slots
\* hold the same Lambda.
C15_Witness ==
    /\ program \in Functions
    /\ result.kind = "Module_Expr"
    /\ Len(result.slots) = 2
    /\ SameFunction(Statements(program.body)[1], Statements(program.body)[2])
    /\ result.slots[1].kind = "Lambda"
    /\ result.slots[1] = result.slots[2]

(***************************************************************************)
(* C14: the parameters of a lambda                                         *)
(***************************************************************************)

\* The phrases of a parameter list, in the order of the text.
ParameterPhrases(left) ==
    IF left.kind = "Paren_Phrase"
    THEN [i \in 1..Len(left.args) |-> left.args[i].expr]
    ELSE <<left>>

WellFormedParameters(left) ==
    /\ left.kind \in {"Identifier", "Paren_Phrase"}
    /\ \A i \in 1..Len(ParameterPhrases(left)) :
          ParameterPhrases(left)[i].kind = "Identifier"

\* The first phrase of a parameter list that is no name.
FirstNonParameter(left) ==
    IF left.kind \notin {"Identifier", "Paren_Phrase"} THEN left
    ELSE ParameterPhrases(left)[
            CHOOSE i \in 1..Len(ParameterPhrases(left)) :
               /\ ParameterPhrases(left)[i].kind # "Identifier"
               /\ \A j \in 1..(i - 1) : ParameterPhrases(left)[j].kind = "Identifier"]

\* The Identifier being analyzed is a parameter of the lambda of the m-th
\* activation, used in its body outside any nested lambda and not bound anew.
RefersToParameter(m) ==
    /\ Active("Identifier")
    /\ m < Len(stack)
    /\ stack[m].ph.kind = "Lambda_Phrase"
    /\ Top.ph.atom \in ParameterNames(stack[m].ph.left)
    /\ LambdasInside(m) = {}
    /\ \A j \in (m + 1)..(Len(stack) - 1) : ~BindsHere(j, Top.ph.atom)

Concerned(left, distinctOnly) ==
    distinctOnly => Cardinality(ParameterNames(left)) = Len(ParameterPhrases(left))

\* The conditions of C14 on every lambda, or, with distinctOnly, on the
\* lambdas whose parameters have different names.
ParameterSlots(distinctOnly) ==
    /\ (Active("Lambda_Phrase") /\ Top.pc = "start") =>
          IF WellFormedParameters(Top.ph.left)
          THEN Concerned(Top.ph.left, distinctOnly) =>
                  /\ ~Thrown
                  /\ envs'[Top.env + 1].frame_nslots = Len(ParameterPhrases(Top.ph.left))
                  /\ envs'[Top.env + 1].frame_maxslots = Len(ParameterPhrases(Top.ph.left))
          ELSE /\ Thrown
               /\ result' = Exception(FirstNonParameter(Top.ph.left), "not a parameter")
    /\ (LambdaReturns /\ Concerned(Top.ph.left, distinctOnly)) =>
          /\ Returned
          /\ ReturnedValue.nargs = Len(ParameterPhrases(Top.ph.left))
    /\ \A m \in 1..Len(stack) :
          (RefersToParameter(m) /\ Concerned(stack[m].ph.left, distinctOnly)) =>
             /\ Returned
             /\ \A i \in 1..Len(ParameterPhrases(stack[m].ph.left)) :
                   ParameterPhrases(stack[m].ph.left)[i].atom = Top.ph.atom =>
                      ReturnedValue = Arg_Ref(Top.ph, i - 1)

\* C14: the i-th identifier (from 0) of the left side of a lambda is the
\* parameter at slot i, an occurrence of it in the body is Arg_Ref(i), the
\* Lambda_Expr has nargs = k for k identifiers, the body is analyzed from
\* frame_nslots = frame_maxslots = k, and a left side or element that is not
\* an Identifier raises "not a parameter".
C14_ParameterSlots == [][ParameterSlots(FALSE)]_vars

\* The same, for the lambdas whose parameters have different names.
C14_DistinctParameterSlots == [][ParameterSlots(TRUE)]_vars

=============================================================================
